---- MODULE Spec2Model ----
(***************************************************************************)
(* YieldPilot: the fund-custody and strategy-execution engine.             *)
(*   Ledger = YieldPilotVault   (contracts/src/YieldPilotVault.sol)        *)
(*   Router = YieldPilotRouter  (contracts/src/CCIPBridge.sol, 154..313)   *)
(*   Bridge = CCIPBridge        (contracts/src/CCIPBridge.sol, 1..152)     *)
(* Every external function is one atomic transaction.  A contract function *)
(* is an operator  f(w, sender, args)  on the world state w (the storage   *)
(* of the three contracts and the token balances) that returns             *)
(*   [err |-> "" or the revert reason, w |-> the world after the call,     *)
(*    ret |-> the returned value, steps |-> the nested calls it made].     *)
(* A reverting call returns the world it was entered with.                 *)
(***************************************************************************)
EXTENDS Integers, Sequences, FiniteSets, TLC

VARIABLES vault, router, bridge, usdc, link, events, ghost, blockTimestamp, last,
          priceFeed, peg, registry, cron

vars == <<vault, router, bridge, usdc, link, events, ghost, blockTimestamp, last,
          priceFeed, peg, registry, cron>>

-----------------------------------------------------------------------------
(* Addresses *)

ZeroAddr == "0x0"
Admin == "admin"
Keeper == "keeper"
VaultAddr == "vault"
RouterAddr == "router"
BridgeAddr == "bridge"
CcipRouterAddr == "ccipRouter"
PoolA == "poolA"
PoolB == "poolB"
PoolX == "poolX"
RemoteReceiver == "receiver"
Users == {"alice", "bob"}
Pools == {PoolA, PoolB}
Addresses == Users \cup {ZeroAddr, Admin, Keeper, VaultAddr, RouterAddr, BridgeAddr,
                         CcipRouterAddr, PoolA, PoolB, RemoteReceiver}

(* Bounds *)
MaxAmount == 2
MaxStrategies == 2
InitialWallet == MaxAmount
AdminWallet == 1

(* type(uint256).max, the allowance the contracts grant; it stands for a    *)
(* value no sequence of transfers in the model can use up.                  *)
MaxUint256 == 1000000

StartTime == 1
MaxChains == 2
MaxMessages == 2
InitialLink == 1

ChainSelectors == 1..MaxChains
MessageIds == 1..MaxMessages

Amounts == 0..MaxAmount

-----------------------------------------------------------------------------
(* Results of a call *)

Ok(w, ret) == [err |-> "", w |-> w, ret |-> ret, steps |-> <<>>]

Revert(w, e) == [err |-> e, w |-> w, ret |-> 0, steps |-> <<>>]

(* A nested external call and how it ended *)
Step(call, r) == [call |-> call, err |-> r.err]

WithSteps(r, steps) == [r EXCEPT !.steps = steps]

-----------------------------------------------------------------------------
(* The ERC20 token, as the test's MockERC20: checked arithmetic, so a       *)
(* transfer beyond the balance or the allowance reverts with a Panic.  An   *)
(* allowance of type(uint256).max stands for 2^256 - 1, which no sequence   *)
(* of transfers within the bounds can use up: it is kept at MaxUint256.     *)

erc20_transfer(tok, from, to, amount) ==
  IF tok.balanceOf[from] < amount
  THEN [err |-> "Panic", tok |-> tok]
  ELSE [err |-> "",
        tok |-> [tok EXCEPT !.balanceOf =
                   [[@ EXCEPT ![from] = @ - amount] EXCEPT ![to] = @ + amount]]]

erc20_approve(tok, holder, spender, amount) ==
  [tok EXCEPT !.allowance = [@ EXCEPT ![<<holder, spender>>] = amount]]

erc20_transferFrom(tok, spender, from, to, amount) ==
  IF tok.allowance[<<from, spender>>] < amount \/ tok.balanceOf[from] < amount
  THEN [err |-> "Panic", tok |-> tok]
  ELSE [err |-> "",
        tok |-> [tok EXCEPT
                   !.allowance = [@ EXCEPT ![<<from, spender>>] =
                                     IF @ = MaxUint256 THEN @ ELSE @ - amount],
                   !.balanceOf =
                     [[@ EXCEPT ![from] = @ - amount] EXCEPT ![to] = @ + amount]]]

-----------------------------------------------------------------------------
(* YieldPilotVault *)

EmptyStrategy ==
  [id |-> 0, user |-> ZeroAddr, allocations |-> <<>>, totalAmount |-> 0,
   createdAt |-> 0, executed |-> FALSE, approved |-> FALSE]

Allocation(chainSelector, protocol, amount) ==
  [chainSelector |-> chainSelector, protocol |-> protocol, asset |-> "usdc",
   amount |-> amount, expectedApy |-> 500]

(* strategies[strategyId]: a mapping reads the zero record where nothing was written *)
getStrategy(w, strategyId) ==
  IF strategyId \in DOMAIN w.vault.strategies
  THEN w.vault.strategies[strategyId]
  ELSE EmptyStrategy

getAllocations(w, strategyId) == getStrategy(w, strategyId).allocations

getUserBalance(w, user) == w.vault.balances[user]

(* onlyRouterOrOwner that lets every caller through *)
onlyRouterOrOwner_anyone(w, sender) == TRUE

onlyRouterOrOwner(w, sender) == sender = w.vault.router \/ sender = w.vault.owner

setRouter(w, sender, newRouter) ==
  IF sender # w.vault.owner THEN Revert(w, "OnlyOwner")
  ELSE Ok([w EXCEPT !.vault.router = newRouter], 0)

setBridge(w, sender, newBridge) ==
  IF sender # w.vault.owner THEN Revert(w, "OnlyOwner")
  ELSE Ok([w EXCEPT !.vault.bridge = newBridge], 0)

deposit(w, sender, amount) ==
  IF amount = 0 THEN Revert(w, "InvalidAmount")
  ELSE LET t == erc20_transferFrom(w.usdc, VaultAddr, sender, VaultAddr, amount) IN
       IF t.err # "" THEN Revert(w, t.err)
       ELSE Ok([w EXCEPT !.usdc = t.tok,
                         !.vault.balances[sender] = @ + amount,
                         !.vault.positions[sender].deposited = @ + amount,
                         !.ghost.netCredited[sender] = @ + amount], 0)

(* withdraw without the balance check *)
withdraw_noBalanceCheck(w, sender, amount) ==
  IF amount = 0 THEN Revert(w, "InvalidAmount")
  ELSE IF w.vault.positions[sender].deposited < amount THEN Revert(w, "Panic")
  ELSE LET t == erc20_transfer(w.usdc, VaultAddr, sender, amount) IN
       IF t.err # "" THEN Revert(w, t.err)
       ELSE Ok([w EXCEPT !.usdc = t.tok,
                         !.vault.balances[sender] = IF @ < amount THEN 0 ELSE @ - amount,
                         !.vault.positions[sender].deposited = @ - amount,
                         !.ghost.netCredited[sender] = @ - amount], 0)

(* withdraw that debits the balance and never releases the asset *)
withdraw_noTransfer(w, sender, amount) ==
  IF amount = 0 THEN Revert(w, "InvalidAmount")
  ELSE IF w.vault.balances[sender] < amount THEN Revert(w, "InsufficientBalance")
  ELSE IF w.vault.positions[sender].deposited < amount THEN Revert(w, "Panic")
  ELSE Ok([w EXCEPT !.vault.balances[sender] = @ - amount,
                    !.vault.positions[sender].deposited = @ - amount,
                    !.ghost.netCredited[sender] = @ - amount], 0)

withdraw(w, sender, amount) ==
  IF amount = 0 THEN Revert(w, "InvalidAmount")
  ELSE IF w.vault.balances[sender] < amount THEN Revert(w, "InsufficientBalance")
  ELSE IF w.vault.positions[sender].deposited < amount THEN Revert(w, "Panic")
  ELSE LET t == erc20_transfer(w.usdc, VaultAddr, sender, amount) IN
       IF t.err # "" THEN Revert(w, t.err)
       ELSE Ok([w EXCEPT !.usdc = t.tok,
                         !.vault.balances[sender] = @ - amount,
                         !.vault.positions[sender].deposited = @ - amount,
                         !.ghost.netCredited[sender] = @ - amount], 0)

(* proposeStrategy that reads nextStrategyId and never increments it *)
proposeStrategy_noIncrement(w, sender, user, allocations, totalAmount, timestamp) ==
  IF ~onlyRouterOrOwner(w, sender) THEN Revert(w, "OnlyRouter")
  ELSE IF w.vault.balances[user] < totalAmount THEN Revert(w, "InsufficientBalance")
  ELSE LET strategyId == w.vault.nextStrategyId
           s == [id |-> strategyId, user |-> user, allocations |-> allocations,
                 totalAmount |-> totalAmount, createdAt |-> timestamp,
                 executed |-> FALSE, approved |-> FALSE]
       IN Ok([w EXCEPT !.vault.strategies = (strategyId :> s) @@ @,
                       !.events.StrategyProposed = Append(@, strategyId)],
             strategyId)

(* proposeStrategy that reserves totalAmount out of the owner's balance *)
proposeStrategy_reserve(w, sender, user, allocations, totalAmount, timestamp) ==
  IF ~onlyRouterOrOwner(w, sender) THEN Revert(w, "OnlyRouter")
  ELSE IF w.vault.balances[user] < totalAmount THEN Revert(w, "InsufficientBalance")
  ELSE LET strategyId == w.vault.nextStrategyId
           s == [id |-> strategyId, user |-> user, allocations |-> allocations,
                 totalAmount |-> totalAmount, createdAt |-> timestamp,
                 executed |-> FALSE, approved |-> FALSE]
       IN Ok([w EXCEPT !.vault.nextStrategyId = @ + 1,
                       !.vault.balances[user] = @ - totalAmount,
                       !.vault.strategies = (strategyId :> s) @@ @,
                       !.events.StrategyProposed = Append(@, strategyId)],
             strategyId)

proposeStrategy(w, sender, user, allocations, totalAmount, timestamp) ==
  IF ~onlyRouterOrOwner(w, sender) THEN Revert(w, "OnlyRouter")
  ELSE IF w.vault.balances[user] < totalAmount THEN Revert(w, "InsufficientBalance")
  ELSE LET strategyId == w.vault.nextStrategyId
           s == [id |-> strategyId, user |-> user, allocations |-> allocations,
                 totalAmount |-> totalAmount, createdAt |-> timestamp,
                 executed |-> FALSE, approved |-> FALSE]
       IN Ok([w EXCEPT !.vault.nextStrategyId = @ + 1,
                       !.vault.strategies = (strategyId :> s) @@ @,
                       !.events.StrategyProposed = Append(@, strategyId)],
             strategyId)

(* approveStrategy without the check that the caller owns the strategy *)
approveStrategy_anyCaller(w, sender, strategyId) ==
  LET s == getStrategy(w, strategyId) IN
  IF s.id = 0 THEN Revert(w, "StrategyNotFound")
  ELSE IF s.executed THEN Revert(w, "StrategyAlreadyExecuted")
  ELSE Ok([w EXCEPT !.vault.strategies[strategyId].approved = TRUE,
                    !.ghost.approvedBy[strategyId] = @ \cup {sender}], 0)

(* approveStrategy that refuses a strategy that is already approved *)
approveStrategy_rejectApproved(w, sender, strategyId) ==
  LET s == getStrategy(w, strategyId) IN
  IF s.id = 0 THEN Revert(w, "StrategyNotFound")
  ELSE IF s.user # sender THEN Revert(w, "OnlyOwner")
  ELSE IF s.executed THEN Revert(w, "StrategyAlreadyExecuted")
  ELSE IF s.approved THEN Revert(w, "StrategyAlreadyApproved")
  ELSE Ok([w EXCEPT !.vault.strategies[strategyId].approved = TRUE,
                    !.ghost.approvedBy[strategyId] = @ \cup {sender}], 0)

(* approveStrategy that looks at the executed flag before the caller *)
approveStrategy_executedFirst(w, sender, strategyId) ==
  LET s == getStrategy(w, strategyId) IN
  IF s.id = 0 THEN Revert(w, "StrategyNotFound")
  ELSE IF s.executed THEN Revert(w, "StrategyAlreadyExecuted")
  ELSE IF s.user # sender THEN Revert(w, "OnlyOwner")
  ELSE Ok([w EXCEPT !.vault.strategies[strategyId].approved = TRUE,
                    !.ghost.approvedBy[strategyId] = @ \cup {sender}], 0)

(* The storage write is s.approved = true; the StrategyApproved log that    *)
(* every successful call emits is not part of the contract's state.         *)
approveStrategy(w, sender, strategyId) ==
  LET s == getStrategy(w, strategyId) IN
  IF s.id = 0 THEN Revert(w, "StrategyNotFound")
  ELSE IF s.user # sender THEN Revert(w, "OnlyOwner")
  ELSE IF s.executed THEN Revert(w, "StrategyAlreadyExecuted")
  ELSE Ok([w EXCEPT !.vault.strategies[strategyId].approved = TRUE,
                    !.ghost.approvedBy[strategyId] = @ \cup {sender}], 0)

(* executeStrategy without the check that the strategy is not yet executed *)
executeStrategy_noExecutedCheck(w, sender, strategyId) ==
  LET s == getStrategy(w, strategyId) IN
  IF ~onlyRouterOrOwner(w, sender) THEN Revert(w, "OnlyRouter")
  ELSE IF s.id = 0 THEN Revert(w, "StrategyNotFound")
  ELSE IF ~s.approved THEN Revert(w, "StrategyNotApproved")
  ELSE IF w.vault.balances[s.user] < s.totalAmount THEN Revert(w, "InsufficientBalance")
  ELSE LET t == erc20_transfer(w.usdc, VaultAddr, w.vault.router, s.totalAmount) IN
       IF t.err # "" THEN Revert(w, t.err)
       ELSE Ok([w EXCEPT !.usdc = t.tok,
                         !.vault.balances[s.user] = @ - s.totalAmount,
                         !.vault.strategies[strategyId].executed = TRUE,
                         !.vault.positions[s.user].activeStrategyId = strategyId], 0)

(* executeStrategy without the check that the strategy is approved *)
executeStrategy_noApprovedCheck(w, sender, strategyId) ==
  LET s == getStrategy(w, strategyId) IN
  IF ~onlyRouterOrOwner(w, sender) THEN Revert(w, "OnlyRouter")
  ELSE IF s.id = 0 THEN Revert(w, "StrategyNotFound")
  ELSE IF s.executed THEN Revert(w, "StrategyAlreadyExecuted")
  ELSE IF w.vault.balances[s.user] < s.totalAmount THEN Revert(w, "InsufficientBalance")
  ELSE LET t == erc20_transfer(w.usdc, VaultAddr, w.vault.router, s.totalAmount) IN
       IF t.err # "" THEN Revert(w, t.err)
       ELSE Ok([w EXCEPT !.usdc = t.tok,
                         !.vault.balances[s.user] = @ - s.totalAmount,
                         !.vault.strategies[strategyId].executed = TRUE,
                         !.vault.positions[s.user].activeStrategyId = strategyId], 0)

(* executeStrategy that checks the balance and never debits it *)
executeStrategy_noDebit(w, sender, strategyId) ==
  LET s == getStrategy(w, strategyId) IN
  IF ~onlyRouterOrOwner(w, sender) THEN Revert(w, "OnlyRouter")
  ELSE IF s.id = 0 THEN Revert(w, "StrategyNotFound")
  ELSE IF ~s.approved THEN Revert(w, "StrategyNotApproved")
  ELSE IF s.executed THEN Revert(w, "StrategyAlreadyExecuted")
  ELSE IF w.vault.balances[s.user] < s.totalAmount THEN Revert(w, "InsufficientBalance")
  ELSE LET t == erc20_transfer(w.usdc, VaultAddr, w.vault.router, s.totalAmount) IN
       IF t.err # "" THEN Revert(w, t.err)
       ELSE Ok([w EXCEPT !.usdc = t.tok,
                         !.vault.strategies[strategyId].executed = TRUE,
                         !.vault.positions[s.user].activeStrategyId = strategyId], 0)

(* executeStrategy without the balance re-check: the checked subtraction    *)
(* is then what stops an overdraw.                                          *)
executeStrategy_noBalanceCheck(w, sender, strategyId) ==
  LET s == getStrategy(w, strategyId) IN
  IF ~onlyRouterOrOwner(w, sender) THEN Revert(w, "OnlyRouter")
  ELSE IF s.id = 0 THEN Revert(w, "StrategyNotFound")
  ELSE IF ~s.approved THEN Revert(w, "StrategyNotApproved")
  ELSE IF s.executed THEN Revert(w, "StrategyAlreadyExecuted")
  ELSE IF w.vault.balances[s.user] < s.totalAmount THEN Revert(w, "Panic")
  ELSE LET t == erc20_transfer(w.usdc, VaultAddr, w.vault.router, s.totalAmount) IN
       IF t.err # "" THEN Revert(w, t.err)
       ELSE Ok([w EXCEPT !.usdc = t.tok,
                         !.vault.balances[s.user] = @ - s.totalAmount,
                         !.vault.strategies[strategyId].executed = TRUE,
                         !.vault.positions[s.user].activeStrategyId = strategyId], 0)

(* executeStrategy that does not record the owner's active strategy *)
executeStrategy_noActiveStrategy(w, sender, strategyId) ==
  LET s == getStrategy(w, strategyId) IN
  IF ~onlyRouterOrOwner(w, sender) THEN Revert(w, "OnlyRouter")
  ELSE IF s.id = 0 THEN Revert(w, "StrategyNotFound")
  ELSE IF ~s.approved THEN Revert(w, "StrategyNotApproved")
  ELSE IF s.executed THEN Revert(w, "StrategyAlreadyExecuted")
  ELSE IF w.vault.balances[s.user] < s.totalAmount THEN Revert(w, "InsufficientBalance")
  ELSE LET t == erc20_transfer(w.usdc, VaultAddr, w.vault.router, s.totalAmount) IN
       IF t.err # "" THEN Revert(w, t.err)
       ELSE Ok([w EXCEPT !.usdc = t.tok,
                         !.vault.balances[s.user] = @ - s.totalAmount,
                         !.vault.strategies[strategyId].executed = TRUE], 0)

(* executeStrategy that wants more than totalAmount in the balance *)
executeStrategy_strictBalance(w, sender, strategyId) ==
  LET s == getStrategy(w, strategyId) IN
  IF ~onlyRouterOrOwner(w, sender) THEN Revert(w, "OnlyRouter")
  ELSE IF s.id = 0 THEN Revert(w, "StrategyNotFound")
  ELSE IF ~s.approved THEN Revert(w, "StrategyNotApproved")
  ELSE IF s.executed THEN Revert(w, "StrategyAlreadyExecuted")
  ELSE IF w.vault.balances[s.user] <= s.totalAmount THEN Revert(w, "InsufficientBalance")
  ELSE LET t == erc20_transfer(w.usdc, VaultAddr, w.vault.router, s.totalAmount) IN
       IF t.err # "" THEN Revert(w, t.err)
       ELSE Ok([w EXCEPT !.usdc = t.tok,
                         !.vault.balances[s.user] = @ - s.totalAmount,
                         !.vault.strategies[strategyId].executed = TRUE,
                         !.vault.positions[s.user].activeStrategyId = strategyId], 0)

executeStrategy(w, sender, strategyId) ==
  LET s == getStrategy(w, strategyId) IN
  IF ~onlyRouterOrOwner(w, sender) THEN Revert(w, "OnlyRouter")
  ELSE IF s.id = 0 THEN Revert(w, "StrategyNotFound")
  ELSE IF ~s.approved THEN Revert(w, "StrategyNotApproved")
  ELSE IF s.executed THEN Revert(w, "StrategyAlreadyExecuted")
  ELSE IF w.vault.balances[s.user] < s.totalAmount THEN Revert(w, "InsufficientBalance")
  ELSE LET t == erc20_transfer(w.usdc, VaultAddr, w.vault.router, s.totalAmount) IN
       IF t.err # "" THEN Revert(w, t.err)
       ELSE Ok([w EXCEPT !.usdc = t.tok,
                         !.vault.balances[s.user] = @ - s.totalAmount,
                         !.vault.strategies[strategyId].executed = TRUE,
                         !.vault.positions[s.user].activeStrategyId = strategyId], 0)

(* returnFunds that credits the user without pulling the funds *)
returnFunds_noPull(w, sender, user, amount) ==
  IF ~onlyRouterOrOwner(w, sender) THEN Revert(w, "OnlyRouter")
  ELSE Ok([w EXCEPT !.vault.balances[user] = @ + amount,
                    !.ghost.netCredited[user] = @ + amount], 0)

returnFunds(w, sender, user, amount) ==
  IF ~onlyRouterOrOwner(w, sender) THEN Revert(w, "OnlyRouter")
  ELSE LET t == erc20_transferFrom(w.usdc, VaultAddr, sender, VaultAddr, amount) IN
       IF t.err # "" THEN Revert(w, t.err)
       ELSE Ok([w EXCEPT !.usdc = t.tok,
                         !.vault.balances[user] = @ + amount,
                         !.ghost.netCredited[user] = @ + amount], 0)

-----------------------------------------------------------------------------
(* CCIPBridge *)

Message(messageId, destTokenAmounts) ==
  [messageId |-> messageId, sourceChainSelector |-> 1, sender |-> "remote",
   data |-> "", destTokenAmounts |-> destTokenAmounts]

configureChain(w, sender, chainSelector, receiver) ==
  IF sender # w.bridge.owner THEN Revert(w, "OnlyOwner")
  ELSE Ok([w EXCEPT !.bridge.destinationReceivers[chainSelector] = receiver,
                    !.bridge.allowedChains[chainSelector] = TRUE], 0)

(* disableChain that also forgets the receiver *)
disableChain_clearReceiver(w, sender, chainSelector) ==
  IF sender # w.bridge.owner THEN Revert(w, "OnlyOwner")
  ELSE Ok([w EXCEPT !.bridge.allowedChains[chainSelector] = FALSE,
                    !.bridge.destinationReceivers[chainSelector] = ZeroAddr], 0)

disableChain(w, sender, chainSelector) ==
  IF sender # w.bridge.owner THEN Revert(w, "OnlyOwner")
  ELSE Ok([w EXCEPT !.bridge.allowedChains[chainSelector] = FALSE], 0)

(* The Transport's ccipSend: it collects the fee in LINK and the tokens     *)
(* from the Bridge, which approved it for both in its constructor, and      *)
(* issues the message id; the id it issues is the Transport's choice.       *)
ccipSend(w, amount, fee, messageId) ==
  LET l == erc20_transferFrom(w.link, CcipRouterAddr, BridgeAddr, CcipRouterAddr, fee)
      t == erc20_transferFrom(w.usdc, CcipRouterAddr, BridgeAddr, CcipRouterAddr, amount)
  IN IF l.err # "" THEN Revert(w, l.err)
     ELSE IF t.err # "" THEN Revert(w, t.err)
     ELSE Ok([w EXCEPT !.link = l.tok, !.usdc = t.tok], messageId)

(* bridgeTokens without the check that the chain is allowed *)
bridgeTokens_noAllowedCheck(w, sender, destChainSelector, amount, fee, messageId) ==
  LET receiver == w.bridge.destinationReceivers[destChainSelector] IN
  IF receiver = ZeroAddr THEN Revert(w, "InvalidReceiver")
  ELSE LET t == erc20_transferFrom(w.usdc, BridgeAddr, sender, BridgeAddr, amount) IN
  IF t.err # "" THEN Revert(w, t.err)
  ELSE LET w1 == [w EXCEPT !.usdc = t.tok] IN
  IF w1.link.balanceOf[BridgeAddr] < fee THEN Revert(w, "InsufficientLinkFees")
  ELSE LET r == ccipSend(w1, amount, fee, messageId) IN
  IF r.err # "" THEN WithSteps(Revert(w, r.err), <<Step("ccipSend", r)>>)
  ELSE WithSteps(Ok(r.w, r.ret), <<Step("ccipSend", r)>>)

(* bridgeTokens without the fee check: the Transport's own collection of    *)
(* the fee is then what fails.                                              *)
bridgeTokens_noFeeCheck(w, sender, destChainSelector, amount, fee, messageId) ==
  IF ~w.bridge.allowedChains[destChainSelector] THEN Revert(w, "ChainNotAllowed")
  ELSE LET receiver == w.bridge.destinationReceivers[destChainSelector] IN
  IF receiver = ZeroAddr THEN Revert(w, "InvalidReceiver")
  ELSE LET t == erc20_transferFrom(w.usdc, BridgeAddr, sender, BridgeAddr, amount) IN
  IF t.err # "" THEN Revert(w, t.err)
  ELSE LET w1 == [w EXCEPT !.usdc = t.tok]
           r == ccipSend(w1, amount, fee, messageId) IN
  IF r.err # "" THEN WithSteps(Revert(w, r.err), <<Step("ccipSend", r)>>)
  ELSE WithSteps(Ok(r.w, r.ret), <<Step("ccipSend", r)>>)

(* fee: the Transport's quote; messageId: the id the Transport issues *)
bridgeTokens(w, sender, destChainSelector, amount, fee, messageId) ==
  IF ~w.bridge.allowedChains[destChainSelector] THEN Revert(w, "ChainNotAllowed")
  ELSE LET receiver == w.bridge.destinationReceivers[destChainSelector] IN
  IF receiver = ZeroAddr THEN Revert(w, "InvalidReceiver")
  ELSE LET t == erc20_transferFrom(w.usdc, BridgeAddr, sender, BridgeAddr, amount) IN
  IF t.err # "" THEN Revert(w, t.err)
  ELSE LET w1 == [w EXCEPT !.usdc = t.tok] IN
  IF w1.link.balanceOf[BridgeAddr] < fee THEN Revert(w, "InsufficientLinkFees")
  ELSE LET r == ccipSend(w1, amount, fee, messageId) IN
  IF r.err # "" THEN WithSteps(Revert(w, r.err), <<Step("ccipSend", r)>>)
  ELSE WithSteps(Ok(r.w, r.ret), <<Step("ccipSend", r)>>)

(* ccipReceive that marks nothing as processed *)
ccipReceive_noMark(w, sender, message) ==
  IF sender # w.bridge.ccipRouter THEN Revert(w, "OnlyRouter")
  ELSE IF w.bridge.processedMessages[message.messageId]
       THEN Revert(w, "MessageAlreadyProcessed")
  ELSE IF Len(message.destTokenAmounts) = 0 THEN Revert(w, "Panic")
  ELSE Ok([w EXCEPT !.events.BridgeReceived =
                       Append(@, [messageId |-> message.messageId,
                                  amount |-> message.destTokenAmounts[1].amount])], 0)

(* ccipReceive without the check that the caller is the Transport *)
ccipReceive_anySender(w, sender, message) ==
  IF w.bridge.processedMessages[message.messageId]
  THEN Revert(w, "MessageAlreadyProcessed")
  ELSE IF Len(message.destTokenAmounts) = 0 THEN Revert(w, "Panic")
  ELSE Ok([w EXCEPT !.bridge.processedMessages[message.messageId] = TRUE,
                    !.events.BridgeReceived =
                       Append(@, [messageId |-> message.messageId,
                                  amount |-> message.destTokenAmounts[1].amount])], 0)

(* ccipReceive that refuses an id lower than one it has already processed *)
ccipReceive_inOrder(w, sender, message) ==
  IF sender # w.bridge.ccipRouter THEN Revert(w, "OnlyRouter")
  ELSE IF w.bridge.processedMessages[message.messageId]
       THEN Revert(w, "MessageAlreadyProcessed")
  ELSE IF \E m \in DOMAIN w.bridge.processedMessages :
            m > message.messageId /\ w.bridge.processedMessages[m]
       THEN Revert(w, "OutOfOrder")
  ELSE IF Len(message.destTokenAmounts) = 0 THEN Revert(w, "Panic")
  ELSE Ok([w EXCEPT !.bridge.processedMessages[message.messageId] = TRUE,
                    !.events.BridgeReceived =
                       Append(@, [messageId |-> message.messageId,
                                  amount |-> message.destTokenAmounts[1].amount])], 0)

ccipReceive(w, sender, message) ==
  IF sender # w.bridge.ccipRouter THEN Revert(w, "OnlyRouter")
  ELSE IF w.bridge.processedMessages[message.messageId]
       THEN Revert(w, "MessageAlreadyProcessed")
  ELSE IF Len(message.destTokenAmounts) = 0 THEN Revert(w, "Panic")
  ELSE Ok([w EXCEPT !.bridge.processedMessages[message.messageId] = TRUE,
                    !.events.BridgeReceived =
                       Append(@, [messageId |-> message.messageId,
                                  amount |-> message.destTokenAmounts[1].amount])], 0)

withdrawLink(w, sender) ==
  IF sender # w.bridge.owner THEN Revert(w, "OnlyOwner")
  ELSE LET t == erc20_transfer(w.link, BridgeAddr, w.bridge.owner,
                               w.link.balanceOf[BridgeAddr]) IN
       IF t.err # "" THEN Revert(w, t.err) ELSE Ok([w EXCEPT !.link = t.tok], 0)

(* withdrawUsdc that hands the Bridge's holdings to the Transport *)
withdrawUsdc_toTransport(w, sender) ==
  IF sender # w.bridge.owner THEN Revert(w, "OnlyOwner")
  ELSE LET t == erc20_transfer(w.usdc, BridgeAddr, w.bridge.ccipRouter,
                               w.usdc.balanceOf[BridgeAddr]) IN
       IF t.err # "" THEN Revert(w, t.err) ELSE Ok([w EXCEPT !.usdc = t.tok], 0)

withdrawUsdc(w, sender) ==
  IF sender # w.bridge.owner THEN Revert(w, "OnlyOwner")
  ELSE LET t == erc20_transfer(w.usdc, BridgeAddr, w.bridge.owner,
                               w.usdc.balanceOf[BridgeAddr]) IN
       IF t.err # "" THEN Revert(w, t.err) ELSE Ok([w EXCEPT !.usdc = t.tok], 0)

-----------------------------------------------------------------------------
(* YieldPilotRouter *)

Protocols == {"AAVE_V3", "COMPOUND_V3"}

onlyVaultOrOwner(w, sender) == sender = w.router.vault \/ sender = w.router.owner

router_setBridge(w, sender, newBridge) ==
  IF sender # w.router.owner THEN Revert(w, "OnlyOwner")
  ELSE Ok([w EXCEPT !.router.bridge = newBridge], 0)

configureProtocol(w, sender, protocol, pool) ==
  IF sender # w.router.owner THEN Revert(w, "OnlyOwner")
  ELSE Ok([w EXCEPT !.router.protocols[protocol] = [pool |-> pool, active |-> TRUE],
                    !.usdc = erc20_approve(w.usdc, RouterAddr, pool, MaxUint256)], 0)

(* disableProtocol open to every caller *)
disableProtocol_anyone(w, sender, protocol) ==
  Ok([w EXCEPT !.router.protocols[protocol].active = FALSE], 0)

(* disableProtocol that also revokes the adapter's spend authorization *)
disableProtocol_revokeApproval(w, sender, protocol) ==
  IF sender # w.router.owner THEN Revert(w, "OnlyOwner")
  ELSE Ok([w EXCEPT !.router.protocols[protocol].active = FALSE,
                    !.usdc = erc20_approve(w.usdc, RouterAddr,
                                           w.router.protocols[protocol].pool, 0)], 0)

disableProtocol(w, sender, protocol) ==
  IF sender # w.router.owner THEN Revert(w, "OnlyOwner")
  ELSE Ok([w EXCEPT !.router.protocols[protocol].active = FALSE], 0)

(* The adapter's supply: the pool pulls the amount from the Router, or      *)
(* reverts for a reason of its own when it is in the set down.              *)
pool_supply(w, pool, amount, down) ==
  IF pool \in down THEN Revert(w, "PoolReverted")
  ELSE LET t == erc20_transferFrom(w.usdc, pool, RouterAddr, pool, amount) IN
       IF t.err # "" THEN Revert(w, t.err) ELSE Ok([w EXCEPT !.usdc = t.tok], 0)

(* The adapter's withdraw: the pool hands the amount to the Router *)
pool_withdraw(w, pool, amount, down) ==
  IF pool \in down THEN Revert(w, "PoolReverted")
  ELSE LET t == erc20_transfer(w.usdc, pool, RouterAddr, amount) IN
       IF t.err # "" THEN Revert(w, t.err) ELSE Ok([w EXCEPT !.usdc = t.tok], 0)

(* deployToProtocol that supplies the adapter and keeps no tally *)
deployToProtocol_noTally(w, sender, user, protocol, amount, down) ==
  LET config == w.router.protocols[protocol] IN
  IF ~onlyVaultOrOwner(w, sender) THEN Revert(w, "OnlyVaultOrOwner")
  ELSE IF ~config.active THEN Revert(w, "ProtocolNotActive")
  ELSE IF w.usdc.balanceOf[RouterAddr] < amount THEN Revert(w, "InsufficientFunds")
  ELSE LET r == pool_supply(w, config.pool, amount, down) IN
       IF r.err # "" THEN Revert(w, r.err) ELSE Ok(r.w, 0)

(* deployToProtocol that leaves the funds check to the adapter *)
deployToProtocol_noFundsCheck(w, sender, user, protocol, amount, down) ==
  LET config == w.router.protocols[protocol] IN
  IF ~onlyVaultOrOwner(w, sender) THEN Revert(w, "OnlyVaultOrOwner")
  ELSE IF ~config.active THEN Revert(w, "ProtocolNotActive")
  ELSE LET r == pool_supply(w, config.pool, amount, down) IN
       IF r.err # "" THEN Revert(w, r.err)
       ELSE Ok([r.w EXCEPT !.router.userDeposits[user][protocol] = @ + amount], 0)

deployToProtocol(w, sender, user, protocol, amount, down) ==
  LET config == w.router.protocols[protocol] IN
  IF ~onlyVaultOrOwner(w, sender) THEN Revert(w, "OnlyVaultOrOwner")
  ELSE IF ~config.active THEN Revert(w, "ProtocolNotActive")
  ELSE IF w.usdc.balanceOf[RouterAddr] < amount THEN Revert(w, "InsufficientFunds")
  ELSE LET r == pool_supply(w, config.pool, amount, down) IN
       IF r.err # "" THEN Revert(w, r.err)
       ELSE Ok([r.w EXCEPT !.router.userDeposits[user][protocol] = @ + amount], 0)

(* withdrawFromProtocol that keeps the withdrawn funds in the Router *)
withdrawFromProtocol_noReturn(w, sender, user, protocol, amount, down) ==
  LET config == w.router.protocols[protocol] IN
  IF ~onlyVaultOrOwner(w, sender) THEN Revert(w, "OnlyVaultOrOwner")
  ELSE IF ~config.active THEN Revert(w, "ProtocolNotActive")
  ELSE IF w.router.userDeposits[user][protocol] < amount THEN Revert(w, "InsufficientFunds")
  ELSE LET r == pool_withdraw(w, config.pool, amount, down) IN
       IF r.err # "" THEN Revert(w, r.err)
       ELSE Ok([r.w EXCEPT !.router.userDeposits[user][protocol] = @ - amount], 0)

withdrawFromProtocol(w, sender, user, protocol, amount, down) ==
  LET config == w.router.protocols[protocol] IN
  IF ~onlyVaultOrOwner(w, sender) THEN Revert(w, "OnlyVaultOrOwner")
  ELSE IF ~config.active THEN Revert(w, "ProtocolNotActive")
  ELSE IF w.router.userDeposits[user][protocol] < amount THEN Revert(w, "InsufficientFunds")
  ELSE LET r == pool_withdraw(w, config.pool, amount, down) IN
       IF r.err # "" THEN Revert(w, r.err)
       ELSE LET w1 == [r.w EXCEPT
                         !.router.userDeposits[user][protocol] = @ - amount,
                         !.usdc = erc20_approve(r.w.usdc, RouterAddr, w.router.vault, amount)]
                r2 == returnFunds(w1, RouterAddr, user, amount)
            IN IF r2.err # "" THEN Revert(w, r2.err) ELSE Ok(r2.w, 0)

(* bridgeFunds that leaves the funds check to the token *)
bridgeFunds_noFundsCheck(w, sender, user, destChainSelector, amount) ==
  IF ~onlyVaultOrOwner(w, sender) THEN Revert(w, "OnlyVaultOrOwner")
  ELSE LET t == erc20_transfer(w.usdc, RouterAddr, w.router.bridge, amount) IN
       IF t.err # "" THEN Revert(w, t.err) ELSE Ok([w EXCEPT !.usdc = t.tok], 0)

(* bridgeFunds that asks the Bridge whether the chain is allowed *)
bridgeFunds_allowedOnly(w, sender, user, destChainSelector, amount) ==
  IF ~onlyVaultOrOwner(w, sender) THEN Revert(w, "OnlyVaultOrOwner")
  ELSE IF ~w.bridge.allowedChains[destChainSelector] THEN Revert(w, "ChainNotAllowed")
  ELSE IF w.usdc.balanceOf[RouterAddr] < amount THEN Revert(w, "InsufficientFunds")
  ELSE LET t == erc20_transfer(w.usdc, RouterAddr, w.router.bridge, amount) IN
       IF t.err # "" THEN Revert(w, t.err) ELSE Ok([w EXCEPT !.usdc = t.tok], 0)

bridgeFunds(w, sender, user, destChainSelector, amount) ==
  IF ~onlyVaultOrOwner(w, sender) THEN Revert(w, "OnlyVaultOrOwner")
  ELSE IF w.usdc.balanceOf[RouterAddr] < amount THEN Revert(w, "InsufficientFunds")
  ELSE LET t == erc20_transfer(w.usdc, RouterAddr, w.router.bridge, amount) IN
       IF t.err # "" THEN Revert(w, t.err) ELSE Ok([w EXCEPT !.usdc = t.tok], 0)

(* One allocation of executeFullStrategy's loop: the call it makes, if any *)
dispatchOne(w, sender, user, alloc, down) ==
  IF alloc.chainSelector = 0
  THEN IF w.router.protocols["AAVE_V3"].pool = alloc.protocol
       THEN WithSteps(deployToProtocol(w, sender, user, "AAVE_V3", alloc.amount, down),
                      <<"deployToProtocol">>)
       ELSE IF w.router.protocols["COMPOUND_V3"].pool = alloc.protocol
       THEN WithSteps(deployToProtocol(w, sender, user, "COMPOUND_V3", alloc.amount, down),
                      <<"deployToProtocol">>)
       ELSE WithSteps(Ok(w, 0), <<"none">>)
  ELSE WithSteps(bridgeFunds(w, sender, user, alloc.chainSelector, alloc.amount),
                 <<"bridgeFunds">>)

(* The loop of executeFullStrategy from allocation i on; a failing call     *)
(* ends the loop with its error.                                            *)
RECURSIVE dispatch(_, _, _, _, _, _)
dispatch(w, sender, user, allocations, i, down) ==
  IF i > Len(allocations) THEN Ok(w, 0)
  ELSE LET r == dispatchOne(w, sender, user, allocations[i], down)
           step == Step(r.steps[1], r)
       IN IF r.err # "" THEN WithSteps(Revert(w, r.err), <<step>>)
          ELSE LET rest == dispatch(r.w, sender, user, allocations, i + 1, down)
               IN WithSteps(rest, <<step>> \o rest.steps)

(* executeFullStrategy that goes on when the Ledger's executeStrategy failed *)
executeFullStrategy_ignoreExecuteFailure(w, sender, strategyId, down) ==
  IF sender # w.router.owner THEN Revert(w, "OnlyOwner")
  ELSE LET strategy == getStrategy(w, strategyId)
           allocations == getAllocations(w, strategyId)
           r1 == executeStrategy(w, RouterAddr, strategyId)
           d == dispatch(r1.w, sender, strategy.user, allocations, 1, down)
           steps == <<Step("executeStrategy", r1)>> \o d.steps
       IN IF d.err # "" THEN WithSteps(Revert(w, d.err), steps)
          ELSE WithSteps(Ok(d.w, 0), steps)

executeFullStrategy(w, sender, strategyId, down) ==
  IF sender # w.router.owner THEN Revert(w, "OnlyOwner")
  ELSE LET strategy == getStrategy(w, strategyId)
           allocations == getAllocations(w, strategyId)
           r1 == executeStrategy(w, RouterAddr, strategyId)
       IN IF r1.err # "" THEN WithSteps(Revert(w, r1.err), <<Step("executeStrategy", r1)>>)
          ELSE LET d == dispatch(r1.w, sender, strategy.user, allocations, 1, down)
                   steps == <<Step("executeStrategy", r1)>> \o d.steps
               IN IF d.err # "" THEN WithSteps(Revert(w, d.err), steps)
                  ELSE WithSteps(Ok(d.w, 0), steps)

getUserDeposit(w, user, protocol) == w.router.userDeposits[user][protocol]

-----------------------------------------------------------------------------
(* YieldPilotVault: the price feed *)

MaxDecimals == 3

(* 1 hours, in seconds *)
OneHour == 3600

RECURSIVE Pow10(_)
Pow10(n) == IF n = 0 THEN 1 ELSE 10 * Pow10(n - 1)

(* What priceFeed.latestRoundData() and priceFeed.decimals() return *)
Reading(price, updatedAt, decimals) ==
  [price |-> price, updatedAt |-> updatedAt, decimals |-> decimals]

(* The outcome of a view call: the error, or the value returned *)
NoResult == [err |-> "", ret |-> "none"]

(* getLatestPrice that takes a reading of exactly one hour for stale *)
getLatestPrice_staleAtOneHour(feed, now) ==
  IF now < feed.updatedAt THEN [err |-> "Panic", price |-> 0, dec |-> 0]
  ELSE IF now - feed.updatedAt >= OneHour
       THEN [err |-> "StalePriceFeed", price |-> 0, dec |-> 0]
  ELSE [err |-> "", price |-> feed.price, dec |-> feed.decimals]

(* block.timestamp - updatedAt is a checked subtraction *)
getLatestPrice(feed, now) ==
  IF now < feed.updatedAt THEN [err |-> "Panic", price |-> 0, dec |-> 0]
  ELSE IF now - feed.updatedAt > OneHour
       THEN [err |-> "StalePriceFeed", price |-> 0, dec |-> 0]
  ELSE [err |-> "", price |-> feed.price, dec |-> feed.decimals]

(* validateUsdcPeg with the two bounds included *)
validateUsdcPeg_inclusive(feed, now) ==
  LET g == getLatestPrice(feed, now) IN
  IF g.err # "" THEN [err |-> g.err, ret |-> "none"]
  ELSE LET oneDollar == Pow10(g.dec)
           absPrice == IF g.price > 0 THEN g.price ELSE 0
       IN [err |-> "",
           ret |-> /\ absPrice >= (oneDollar * 99) \div 100
                   /\ absPrice <= (oneDollar * 101) \div 100]

(* The divisions are integer divisions, as in the contract *)
validateUsdcPeg(feed, now) ==
  LET g == getLatestPrice(feed, now) IN
  IF g.err # "" THEN [err |-> g.err, ret |-> "none"]
  ELSE LET oneDollar == Pow10(g.dec)
           absPrice == IF g.price > 0 THEN g.price ELSE 0
       IN [err |-> "",
           ret |-> /\ absPrice > (oneDollar * 99) \div 100
                   /\ absPrice < (oneDollar * 101) \div 100]

-----------------------------------------------------------------------------
(* The workflow's periodic rebalance check (yield-optimizer.ts).  APY       *)
(* percentages are carried in halves of a basis point, so that the          *)
(* rounding of apyToBps is visible; basis points are whole numbers.         *)

rebalanceDriftThresholdBps == 2
MaxWallets == 2
MaxRecIds == 1

(* No identifier: the zero bytes32 of the registry, null in a check *)
Null == 0

RecIds == 1..MaxRecIds

Abs(x) == IF x < 0 THEN -x ELSE x

(* Math.round(apyPct * 100): to the nearest basis point, a half going up *)
apyToBps(apyPct) == (apyPct + 1) \div 2

(* blendedApyBps / 100, as a percentage *)
bpsToPct(bps) == 2 * bps

NoRecommendation == [recommendationId |-> Null, blendedApyBps |-> 0]

(* What the services answer while one wallet is evaluated: the registry     *)
(* read, the yield fetch, the AI analysis with the recommendation it        *)
(* builds, and the on-chain write.                                          *)
Answer(read, yields, ai, blendedApyPct, id, write) ==
  [read |-> read, yields |-> yields, ai |-> ai, blendedApyPct |-> blendedApyPct,
   id |-> id, write |-> write]

NewApys == {0} \cup ((2 * rebalanceDriftThresholdBps - 1)..(2 * rebalanceDriftThresholdBps + 1))

Answers ==
  {Answer(FALSE, "pools", TRUE, 0, 1, TRUE),
   Answer(TRUE, "throws", TRUE, 0, 1, TRUE),
   Answer(TRUE, "empty", TRUE, 0, 1, TRUE),
   Answer(TRUE, "pools", FALSE, 0, 1, TRUE)}
    \cup {Answer(TRUE, "pools", TRUE, apy, id, write) :
            apy \in NewApys, id \in RecIds, write \in BOOLEAN}

RebalanceCheck(walletAddress, currentId, newId, driftPct, shouldRebalance) ==
  [walletAddress |-> walletAddress, currentRecommendationId |-> currentId,
   newRecommendationId |-> newId, driftPct |-> driftPct,
   shouldRebalance |-> shouldRebalance]

NoCheck == RebalanceCheck("", Null, Null, 0, FALSE)

Thrown(reg) == [err |-> "Error", registry |-> reg, check |-> NoCheck]

Returned(reg, check) == [err |-> "", registry |-> reg, check |-> check]

(* storeRecommendation(wallet, recommendationId, blendedApyBps, ...) *)
writeOnChain(reg, walletAddress, id, blendedApyPct) ==
  [reg EXCEPT ![walletAddress] =
     [recommendationId |-> id, blendedApyBps |-> apyToBps(blendedApyPct)]]

evaluateRebalance(reg, walletAddress, answer) ==
  IF ~answer.read \/ answer.yields = "throws" THEN Thrown(reg)
  ELSE LET onChain == reg[walletAddress] IN
       IF answer.yields = "empty"
       THEN Returned(reg, RebalanceCheck(walletAddress, onChain.recommendationId, Null, 0, FALSE))
       ELSE IF ~answer.ai THEN Thrown(reg)
       ELSE LET currentApyPct == bpsToPct(onChain.blendedApyBps)
                driftPct == Abs(answer.blendedApyPct - currentApyPct)
                driftBps == apyToBps(driftPct)
                shouldRebalance == driftBps >= rebalanceDriftThresholdBps
            IN IF shouldRebalance /\ ~answer.write THEN Thrown(reg)
               ELSE Returned(IF shouldRebalance
                             THEN writeOnChain(reg, walletAddress, answer.id, answer.blendedApyPct)
                             ELSE reg,
                             RebalanceCheck(walletAddress, onChain.recommendationId,
                                            IF shouldRebalance THEN answer.id ELSE Null,
                                            driftPct, shouldRebalance))

(* The loop of onCronTrigger from wallet i on: a wallet whose evaluation    *)
(* throws is logged and left out of the results.                            *)
RECURSIVE evaluateWallets(_, _, _, _)
evaluateWallets(reg, activeWallets, answers, i) ==
  IF i > Len(activeWallets) THEN [registry |-> reg, results |-> <<>>, steps |-> <<>>]
  ELSE LET r == evaluateRebalance(reg, activeWallets[i], answers[i])
           rest == evaluateWallets(r.registry, activeWallets, answers, i + 1)
       IN [registry |-> rest.registry,
           results |-> (IF r.err = "" THEN <<r.check>> ELSE <<>>) \o rest.results,
           steps |-> <<Step(activeWallets[i], r)>> \o rest.steps]

Summary(results) ==
  [totalWallets |-> Len(results),
   rebalancesTriggered |-> Cardinality({k \in DOMAIN results : results[k].shouldRebalance}),
   details |-> results]

(* onCronTrigger that fails when the evaluation of a wallet failed *)
onCronTrigger_rethrow(reg, activeWallets, answers) ==
  LET l == evaluateWallets(reg, activeWallets, answers, 1) IN
  [err |-> IF \E k \in DOMAIN l.steps : l.steps[k].err # "" THEN "Error" ELSE "",
   registry |-> l.registry, summary |-> Summary(l.results), steps |-> l.steps]

onCronTrigger(reg, activeWallets, answers) ==
  LET l == evaluateWallets(reg, activeWallets, answers, 1) IN
  [err |-> "", registry |-> l.registry, summary |-> Summary(l.results), steps |-> l.steps]

NoRun == [err |-> "", activeWallets |-> <<>>, summary |-> Summary(<<>>)]

-----------------------------------------------------------------------------
(* The world and the transaction boundary *)

World ==
  [vault |-> vault, router |-> router, bridge |-> bridge, usdc |-> usdc,
   link |-> link, events |-> events, ghost |-> ghost]

(* The latest transaction: the function called, how it ended, and the      *)
(* first of its nested calls that failed (0 when none did).                 *)
Call(op, sender) == [op |-> op, err |-> "", step |-> 0]

FailedStep(r) ==
  IF \E k \in DOMAIN r.steps : r.steps[k].err # ""
  THEN CHOOSE k \in DOMAIN r.steps :
         r.steps[k].err # "" /\ \A j \in 1..(k - 1) : r.steps[j].err = ""
  ELSE 0

Commit(r, call) ==
  /\ vault' = r.w.vault
  /\ router' = r.w.router
  /\ bridge' = r.w.bridge
  /\ usdc' = r.w.usdc
  /\ link' = r.w.link
  /\ events' = r.w.events
  /\ ghost' = r.w.ghost
  /\ last' = [call EXCEPT !.err = r.err, !.step = FailedStep(r)]
  /\ UNCHANGED <<blockTimestamp, priceFeed, peg, registry, cron>>

-----------------------------------------------------------------------------
(* State after the three constructors, with the wallets funded and the      *)
(* vault approved as spender, as the tests' setUp does.                     *)

Funded == Users \cup {Admin, Keeper}

InitContracts ==
  /\ vault = [owner |-> Admin, router |-> ZeroAddr, bridge |-> ZeroAddr,
              nextStrategyId |-> 1, strategies |-> <<>>,
              positions |-> [a \in Addresses |-> [deposited |-> 0, activeStrategyId |-> 0]],
              balances |-> [a \in Addresses |-> 0]]
  /\ router = [owner |-> Admin, vault |-> VaultAddr, bridge |-> ZeroAddr,
               protocols |-> [p \in Protocols |-> [pool |-> ZeroAddr, active |-> FALSE]],
               userDeposits |-> [u \in Addresses |-> [p \in Protocols |-> 0]]]
  /\ bridge = [owner |-> Admin, ccipRouter |-> CcipRouterAddr,
               destinationReceivers |-> [c \in ChainSelectors |-> ZeroAddr],
               allowedChains |-> [c \in ChainSelectors |-> FALSE],
               processedMessages |-> [m \in MessageIds |-> FALSE]]
  /\ usdc = [balanceOf |-> [a \in Addresses |->
                              IF a \in Users THEN InitialWallet
                              ELSE IF a = Admin THEN AdminWallet ELSE 0],
             allowance |-> [p \in Addresses \X Addresses |->
                              IF p[1] \in Funded /\ p[2] \in {VaultAddr, BridgeAddr}
                              THEN MaxUint256
                              ELSE IF p[1] = BridgeAddr /\ p[2] = CcipRouterAddr
                                   THEN MaxUint256 ELSE 0]]
  /\ link = [balanceOf |-> [a \in Addresses |-> IF a = BridgeAddr THEN InitialLink ELSE 0],
             allowance |-> [p \in Addresses \X Addresses |->
                              IF p[1] = BridgeAddr /\ p[2] = CcipRouterAddr
                              THEN MaxUint256 ELSE 0]]
  /\ events = [StrategyProposed |-> <<>>, BridgeReceived |-> <<>>]
  /\ ghost = [netCredited |-> [a \in Addresses |-> 0],
              approvedBy |-> [i \in 1..(MaxStrategies + 1) |-> {}]]
  /\ blockTimestamp = StartTime
  /\ last = Call("init", ZeroAddr)
  /\ peg = NoResult

(* The price feed as the tests' MockPriceFeed starts: one unit, just updated *)
Init ==
  /\ InitContracts
  /\ priceFeed = Reading(Pow10(MaxDecimals), StartTime, MaxDecimals)
  /\ registry = [wallet \in Users |-> NoRecommendation]
  /\ cron = NoRun

-----------------------------------------------------------------------------
(* Ledger transactions *)

Depositors == {"alice"}

VaultCallers == {"alice", Admin, Keeper}

(* The recommender's plan for a total: one local leg carrying the whole amount *)
PlanFor(totalAmount) == <<Allocation(0, PoolA, totalAmount)>>

SetRouter(sender, newRouter) ==
  /\ Commit(setRouter(World, sender, newRouter), Call("setRouter", sender))

Deposit(sender, amount) ==
  /\ Commit(deposit(World, sender, amount), Call("deposit", sender))

Withdraw(sender, amount) ==
  /\ Commit(withdraw(World, sender, amount), Call("withdraw", sender))

ProposeStrategy(sender, user, allocations, totalAmount, cap) ==
  LET r == proposeStrategy(World, sender, user, allocations, totalAmount, blockTimestamp) IN
    /\ r.err = "" => vault.nextStrategyId <= cap
    /\ Commit(r, Call("proposeStrategy", sender))

ApproveStrategy(sender, strategyId) ==
  /\ Commit(approveStrategy(World, sender, strategyId),
            Call("approveStrategy", sender))

ExecuteStrategy(sender, strategyId) ==
  /\ Commit(executeStrategy(World, sender, strategyId),
            Call("executeStrategy", sender))

ReturnFunds(sender, user, amount) ==
  /\ Commit(returnFunds(World, sender, user, amount),
            Call("returnFunds", sender))

StrategyIds == 1..(MaxStrategies + 1)

NextVault ==
  \/ \E sender \in {Admin, "alice"} : SetRouter(sender, Keeper)
  \/ \E sender \in Depositors, amount \in Amounts : Deposit(sender, amount)
  \/ \E sender \in Depositors, amount \in Amounts \cup {MaxAmount + 1} : Withdraw(sender, amount)
  \/ \E sender \in VaultCallers, user \in Depositors, t \in 1..MaxAmount :
       ProposeStrategy(sender, user, PlanFor(t), t, MaxStrategies)
  \/ \E sender \in VaultCallers, id \in StrategyIds : ApproveStrategy(sender, id)
  \/ \E sender \in VaultCallers, id \in StrategyIds : ExecuteStrategy(sender, id)
  \/ \E sender \in VaultCallers, user \in Users, amount \in 1..MaxAmount :
       ReturnFunds(sender, user, amount)

Spec == Init /\ [][NextVault]_vars

-----------------------------------------------------------------------------
(* Bridge transactions *)

InboundTokenAmounts ==
  {<<>>} \cup {<<[token |-> "usdc", amount |-> a]>> : a \in 1..MaxAmount}

ConfigureChain(sender, chainSelector, receiver) ==
  /\ Commit(configureChain(World, sender, chainSelector, receiver),
            Call("configureChain", sender))

DisableChain(sender, chainSelector) ==
  /\ Commit(disableChain(World, sender, chainSelector), Call("disableChain", sender))

BridgeTokens(sender, destChainSelector, amount, fee, messageId) ==
  /\ Commit(bridgeTokens(World, sender, destChainSelector, amount, fee, messageId),
            Call("bridgeTokens", sender))

CcipReceive(sender, message) ==
  /\ Commit(ccipReceive(World, sender, message), Call("ccipReceive", sender))

WithdrawLink(sender) ==
  /\ Commit(withdrawLink(World, sender), Call("withdrawLink", sender))

WithdrawUsdc(sender) ==
  /\ Commit(withdrawUsdc(World, sender), Call("withdrawUsdc", sender))

NextBridge ==
  \/ \E sender \in {Admin, "alice"}, c \in ChainSelectors, receiver \in {RemoteReceiver, ZeroAddr} :
       ConfigureChain(sender, c, receiver)
  \/ \E sender \in {Admin, "alice"}, c \in ChainSelectors : DisableChain(sender, c)
  \/ \E c \in ChainSelectors, amount \in 1..MaxAmount, fee \in 0..(InitialLink + 1), m \in MessageIds :
       BridgeTokens("alice", c, amount, fee, m)
  \/ \E sender \in {CcipRouterAddr, "alice"}, m \in MessageIds, ta \in InboundTokenAmounts :
       CcipReceive(sender, Message(m, ta))
  \/ \E sender \in {Admin, "alice"} : WithdrawLink(sender)
  \/ \E sender \in {Admin, "alice"} : WithdrawUsdc(sender)

SpecBridge == Init /\ [][NextBridge]_vars

-----------------------------------------------------------------------------
(* Router transactions, with the Ledger transactions that feed them *)

MaxRouterStrategies == 1

RouterPlans ==
  { <<Allocation(0, PoolA, 1), Allocation(0, PoolB, 1)>>,
    <<Allocation(0, PoolA, 1), Allocation(1, RemoteReceiver, 1)>>,
    <<Allocation(0, PoolA, 1), Allocation(0, PoolX, 1)>> }

RouterSetBridge(sender, newBridge) ==
  /\ Commit(router_setBridge(World, sender, newBridge), Call("router.setBridge", sender))

ConfigureProtocol(sender, protocol, pool) ==
  /\ Commit(configureProtocol(World, sender, protocol, pool),
            Call("configureProtocol", sender))

DisableProtocol(sender, protocol) ==
  /\ Commit(disableProtocol(World, sender, protocol), Call("disableProtocol", sender))

DeployToProtocol(sender, user, protocol, amount, down) ==
  /\ Commit(deployToProtocol(World, sender, user, protocol, amount, down),
            Call("deployToProtocol", sender))

WithdrawFromProtocol(sender, user, protocol, amount, down) ==
  /\ Commit(withdrawFromProtocol(World, sender, user, protocol, amount, down),
            Call("withdrawFromProtocol", sender))

BridgeFunds(sender, user, destChainSelector, amount) ==
  /\ Commit(bridgeFunds(World, sender, user, destChainSelector, amount),
            Call("bridgeFunds", sender))

ExecuteFullStrategy(sender, strategyId, down) ==
  /\ Commit(executeFullStrategy(World, sender, strategyId, down),
            Call("executeFullStrategy", sender))

RouterStrategyIds == 1..(MaxRouterStrategies + 1)

PoolOf(protocol) == IF protocol = "AAVE_V3" THEN PoolA ELSE PoolB

NextRouter ==
  \/ SetRouter(Admin, RouterAddr)
  \/ RouterSetBridge(Admin, BridgeAddr)
  \/ \E sender \in {Admin, "alice"}, protocol \in Protocols :
       ConfigureProtocol(sender, protocol, PoolOf(protocol))
  \/ \E protocol \in Protocols : DisableProtocol(Admin, protocol)
  \/ \E amount \in 1..MaxAmount : Deposit("alice", amount)
  \/ \E plan \in RouterPlans, t \in 1..MaxAmount :
       ProposeStrategy(Admin, "alice", plan, t, MaxRouterStrategies)
  \/ \E id \in RouterStrategyIds : ApproveStrategy("alice", id)
  \/ \E sender \in {Admin, "alice"}, id \in RouterStrategyIds, down \in SUBSET {PoolA} :
       ExecuteFullStrategy(sender, id, down)
  \/ \E protocol \in Protocols, down \in SUBSET {PoolA} :
       DeployToProtocol(Admin, "alice", protocol, 1, down)
  \/ \E protocol \in Protocols : WithdrawFromProtocol(Admin, "alice", protocol, 1, {})
  \/ \E c \in {1} : BridgeFunds(Admin, "alice", c, 1)

SpecRouter == Init /\ [][NextRouter]_vars

-----------------------------------------------------------------------------
(* The peg check: time passes, and each call reads the feed, whose answer   *)
(* is the feed's to choose.                                                 *)

MaxTime == StartTime + 2 * OneHour + 2

(* Time advances by whole steps of about an hour *)
TickSteps == {OneHour, OneHour + 1}

(* The age of a reading: now - updatedAt *)
Ages == {0, 1, OneHour - 1, OneHour, OneHour + 1}

(* Prices around the two bounds of the band at the given precision, with    *)
(* one unit, nine tenths of a unit, zero and a negative price.              *)
Prices(decimals) ==
  LET one == Pow10(decimals)
      lo == (one * 99) \div 100
      hi == (one * 101) \div 100
  IN {-1, 0, (one * 9) \div 10, one} \cup ((lo - 1)..(lo + 1)) \cup ((hi - 1)..(hi + 1))

AllPrices == UNION {Prices(d) : d \in 0..MaxDecimals}

Readings(now) ==
  {Reading(price, now - age, decimals) :
     price \in AllPrices,
     age \in {a \in Ages : a <= now},
     decimals \in 0..MaxDecimals}

Tick(dt) ==
  /\ blockTimestamp + dt <= MaxTime
  /\ blockTimestamp' = blockTimestamp + dt
  /\ last' = Call("tick", ZeroAddr)
  /\ UNCHANGED <<vault, router, bridge, usdc, link, events, ghost, priceFeed, peg, registry, cron>>

GetLatestPrice(price, age, decimals) ==
  /\ price \in Prices(decimals)
  /\ age <= blockTimestamp
  /\ priceFeed' = Reading(price, blockTimestamp - age, decimals)
  /\ peg' = [err |-> getLatestPrice(priceFeed', blockTimestamp).err, ret |-> "none"]
  /\ last' = [Call("getLatestPrice", ZeroAddr) EXCEPT !.err = peg'.err]
  /\ UNCHANGED <<vault, router, bridge, usdc, link, events, ghost, blockTimestamp,
               registry, cron>>

ValidateUsdcPeg(price, age, decimals) ==
  /\ price \in Prices(decimals)
  /\ age <= blockTimestamp
  /\ priceFeed' = Reading(price, blockTimestamp - age, decimals)
  /\ peg' = validateUsdcPeg(priceFeed', blockTimestamp)
  /\ last' = [Call("validateUsdcPeg", ZeroAddr) EXCEPT !.err = peg'.err]
  /\ UNCHANGED <<vault, router, bridge, usdc, link, events, ghost, blockTimestamp,
               registry, cron>>

NextOracle ==
  \/ \E dt \in TickSteps : Tick(dt)
  \/ \E price \in AllPrices, age \in Ages, decimals \in 0..MaxDecimals :
       GetLatestPrice(price, age, decimals)
  \/ \E price \in AllPrices, age \in Ages, decimals \in 0..MaxDecimals :
       ValidateUsdcPeg(price, age, decimals)

SpecOracle == Init /\ [][NextOracle]_vars

-----------------------------------------------------------------------------
(* The cron trigger: each run fetches the list of active wallets and the    *)
(* services answer each evaluation as they choose.                          *)

(* The lists getActiveWallets can return: each wallet at most once *)
WalletLists ==
  {l \in UNION {[1..n -> Users] : n \in 0..MaxWallets} :
     \A j, k \in DOMAIN l : j # k => l[j] # l[k]}

OnCronTrigger(activeWallets, answers) ==
  /\ Len(answers) = Len(activeWallets)
  /\ LET r == onCronTrigger(registry, activeWallets, answers) IN
       /\ registry' = r.registry
       /\ cron' = [err |-> r.err, activeWallets |-> activeWallets, summary |-> r.summary]
       /\ last' = [op |-> "onCronTrigger", err |-> r.err, step |-> FailedStep(r)]
  /\ UNCHANGED <<vault, router, bridge, usdc, link, events, ghost, blockTimestamp,
                 priceFeed, peg>>

(* fetchActiveWallets throws: the handler fails before the loop *)
FetchActiveWalletsFails ==
  /\ cron' = [err |-> "Error", activeWallets |-> <<>>, summary |-> Summary(<<>>)]
  /\ last' = [op |-> "onCronTrigger", err |-> "Error", step |-> 0]
  /\ UNCHANGED <<vault, router, bridge, usdc, link, events, ghost, blockTimestamp,
                 priceFeed, peg, registry>>

AnswerLists == UNION {[1..n -> Answers] : n \in 0..MaxWallets}

NextCron ==
  \/ \E activeWallets \in WalletLists, answers \in AnswerLists :
       OnCronTrigger(activeWallets, answers)
  \/ FetchActiveWalletsFails

SpecCron == Init /\ [][NextCron]_vars

-----------------------------------------------------------------------------
(* Properties of the Ledger *)

Strategies == vault.strategies

Executed(id) == id \in DOMAIN Strategies /\ Strategies[id].executed

Authorized(sender) == onlyRouterOrOwner(World, sender)

RECURSIVE SumOver(_, _)
SumOver(f, S) ==
  IF S = {} THEN 0
  ELSE LET x == CHOOSE y \in S : TRUE IN f[x] + SumOver(f, S \ {x})

(* Sum of totalAmount over the executed strategies of one owner *)
ExecutedTotal(u) ==
  SumOver([id \in DOMAIN Strategies |-> Strategies[id].totalAmount],
          {id \in DOMAIN Strategies : Strategies[id].user = u /\ Strategies[id].executed})

(* C2, as stated: after a successful executeStrategy(id), every further     *)
(* executeStrategy(id), whoever calls it, fails StrategyAlreadyExecuted.    *)
C2_EveryFurtherCallFailsAlreadyExecuted ==
  \A id \in StrategyIds, sender \in Addresses :
    Executed(id) => executeStrategy(World, sender, id).err = "StrategyAlreadyExecuted"

(* C2, amended: executeStrategy is exactly-once per strategy id.  On an     *)
(* executed strategy every further executeStrategy(id) fails, with          *)
(* StrategyAlreadyExecuted when the caller is the Router-authorized         *)
(* identity or the system owner and with OnlyRouter for any other caller,   *)
(* and it debits no balance and moves no funds.                             *)
C2_ExecuteExactlyOnce ==
  \A id \in StrategyIds, sender \in Addresses :
    Executed(id) =>
      LET r == executeStrategy(World, sender, id) IN
        /\ r.err = IF Authorized(sender) THEN "StrategyAlreadyExecuted" ELSE "OnlyRouter"
        /\ r.w.vault.balances = vault.balances
        /\ r.w.usdc.balanceOf = usdc.balanceOf

C2_Witness ==
  /\ last.op = "executeStrategy"
  /\ last.err = "StrategyAlreadyExecuted"
  /\ \E id \in DOMAIN Strategies : Strategies[id].executed /\ Strategies[id].totalAmount > 0

(* C3: a strategy is Proposed, Approved or Executed (executed implies       *)
(* approved); approved and executed never go from true to false, a          *)
(* strategy never becomes executed without having been approved, and no     *)
(* field of an executed strategy ever changes.                              *)
C3_StrategyLifecycle ==
  /\ [](\A id \in DOMAIN Strategies : Strategies[id].executed => Strategies[id].approved)
  /\ [][\A id \in DOMAIN Strategies :
          /\ id \in DOMAIN Strategies'
          /\ Strategies[id].approved => Strategies'[id].approved
          /\ Strategies[id].executed => Strategies'[id] = Strategies[id]
          /\ ~Strategies[id].approved => ~Strategies'[id].executed]_vars

C3_Witness ==
  /\ last.op = "approveStrategy"
  /\ last.err = "StrategyAlreadyExecuted"
  /\ \E i, j \in DOMAIN Strategies :
       /\ Strategies[i].executed
       /\ Strategies[j].approved /\ ~Strategies[j].executed

(* C4: no double-spend.  For every owner the executed strategies' total     *)
(* plus the withdrawals never exceeds the deposits plus the funds returned  *)
(* (netCredited is deposits + returned - withdrawals), and two approved     *)
(* strategies of one owner whose totals together exceed the owner's         *)
(* balance cannot both execute.                                             *)
C4_NoDoubleSpend ==
  /\ \A u \in Addresses : ExecutedTotal(u) <= ghost.netCredited[u]
  /\ \A i, j \in DOMAIN Strategies, s1, s2 \in {Admin, Keeper} :
       ( /\ i # j
         /\ Strategies[i].user = Strategies[j].user
         /\ Strategies[i].totalAmount + Strategies[j].totalAmount
              > vault.balances[Strategies[i].user] )
       => LET r1 == executeStrategy(World, s1, i)
              r2 == executeStrategy(r1.w, s2, j)
          IN ~(r1.err = "" /\ r2.err = "")

C4_Witness ==
  /\ last.op = "executeStrategy"
  /\ last.err = "InsufficientBalance"
  /\ \E i, j \in DOMAIN Strategies :
       /\ i # j
       /\ Strategies[i].user = Strategies[j].user
       /\ Strategies[i].executed
       /\ Strategies[j].approved /\ ~Strategies[j].executed
       /\ ghost.netCredited[Strategies[i].user]
            < Strategies[i].totalAmount + Strategies[j].totalAmount

(* C5: no funds move without the user's approval.  An executed strategy     *)
(* was approved by a successful approveStrategy call of its own owner, and  *)
(* approveStrategy by anyone else, the system owner and the Router-         *)
(* authorized identity included, fails and leaves approved as it was.       *)
C5_OnlyOwnerApproves ==
  \A id \in DOMAIN Strategies :
    /\ Strategies[id].approved => ghost.approvedBy[id] = {Strategies[id].user}
    /\ Strategies[id].executed => Strategies[id].user \in ghost.approvedBy[id]
    /\ \A sender \in Addresses \ {Strategies[id].user} :
         LET r == approveStrategy(World, sender, id) IN
           /\ r.err = "OnlyOwner"
           /\ getStrategy(r.w, id).approved = Strategies[id].approved

C5_Witness ==
  /\ last.op = "approveStrategy"
  /\ last.err = "OnlyOwner"
  /\ vault.router = Keeper
  /\ \E i, j \in DOMAIN Strategies :
       /\ Strategies[i].executed /\ Strategies[i].totalAmount > 0
       /\ ~Strategies[j].approved

(* C7: withdraw(amount) with amount > availableBalance fails                *)
(* InsufficientBalance and changes nothing.                                 *)
C7_WithdrawInsufficient ==
  \A sender \in Addresses, amount \in 1..(MaxAmount + 2) :
    amount > vault.balances[sender] =>
      LET r == withdraw(World, sender, amount) IN
        /\ r.err = "InsufficientBalance"
        /\ r.w = World

C7_Witness ==
  /\ last.op = "withdraw"
  /\ last.err = "InsufficientBalance"
  /\ vault.balances["alice"] > 0

(* C8: in every reachable state, withdraw(amount) with                      *)
(* 0 < amount <= availableBalance succeeds, debits availableBalance by      *)
(* amount and releases amount of the asset to the caller.                   *)
C8_WithdrawWithinBalanceSucceeds ==
  \A sender \in Addresses, amount \in 1..(MaxAmount + 2) :
    amount <= vault.balances[sender] =>
      LET r == withdraw(World, sender, amount) IN
        /\ r.err = ""
        /\ r.w.vault.balances[sender] = vault.balances[sender] - amount
        /\ r.w.usdc.balanceOf[sender] = usdc.balanceOf[sender] + amount

(* C9: from a zero balance, deposit(a) then withdraw(b) with 0 < b <= a     *)
(* leaves availableBalance = a - b and changes the Ledger's holdings of     *)
(* the asset by a - b.                                                      *)
C9_DepositThenWithdraw ==
  \A u \in Addresses, a \in 1..(MaxAmount + 1) :
    LET r1 == deposit(World, u, a) IN
      (vault.balances[u] = 0 /\ r1.err = "") =>
        \A b \in 1..a :
          LET r2 == withdraw(r1.w, u, b) IN
            /\ r2.err = ""
            /\ r2.w.vault.balances[u] = a - b
            /\ r2.w.usdc.balanceOf[VaultAddr] = usdc.balanceOf[VaultAddr] + a - b

C9_Witness ==
  /\ last.op = "withdraw"
  /\ last.err = ""
  /\ vault.balances["alice"] = 1
  /\ usdc.balanceOf[VaultAddr] = 1
  /\ usdc.balanceOf["alice"] = InitialWallet - 1
  /\ usdc.balanceOf[Admin] = AdminWallet
  /\ Strategies = <<>>

(* C10: the ids returned by successful proposeStrategy calls are 1, 2, 3,   *)
(* ... in call order; a failed proposeStrategy consumes no id.              *)
C10_StrategyIdsSequential ==
  /\ \A i \in 1..Len(events.StrategyProposed) : events.StrategyProposed[i] = i
  /\ vault.nextStrategyId = Len(events.StrategyProposed) + 1
  /\ DOMAIN Strategies = 1..Len(events.StrategyProposed)
  /\ \A i \in DOMAIN Strategies : Strategies[i].id = i
  /\ \A sender \in VaultCallers, user \in Depositors, t \in 1..MaxAmount :
       LET r == proposeStrategy(World, sender, user, PlanFor(t), t, blockTimestamp) IN
         IF r.err = ""
         THEN r.ret = Len(events.StrategyProposed) + 1
         ELSE r.w.vault.nextStrategyId = vault.nextStrategyId

C10_Witness ==
  /\ last.op = "proposeStrategy"
  /\ last.err = "InsufficientBalance"
  /\ events.StrategyProposed = <<1, 2>>

C12_ApproveErrors ==
  \A id \in 0..(MaxStrategies + 1), sender \in Addresses :
    LET r == approveStrategy(World, sender, id) IN
      /\ id \notin DOMAIN Strategies => r.err = "StrategyNotFound"
      /\ id \in DOMAIN Strategies =>
           r.err = IF sender # Strategies[id].user THEN "OnlyOwner"
                   ELSE IF Strategies[id].executed THEN "StrategyAlreadyExecuted"
                   ELSE ""
      /\ r.err # "" => r.w = World

C12_Witness ==
  /\ last.op = "approveStrategy"
  /\ last.err = "StrategyNotFound"
  /\ Len(events.StrategyProposed) = 1
  /\ Strategies[1].executed

(* The callers onlyRouterOrOwner lets through *)
RouterOrOwner == {vault.router, vault.owner}

(* C13: the gap between proposal and execution.  When the owner's           *)
(* availableBalance is below totalAmount, in particular after the owner     *)
(* withdrew following a successful proposal, executeStrategy on the         *)
(* approved strategy fails InsufficientBalance, moves nothing to the        *)
(* Router and leaves the strategy approved and not executed and the         *)
(* owner's balance as it was.                                               *)
C13_ExecuteAfterWithdrawFails ==
  \A id \in DOMAIN Strategies, sender \in RouterOrOwner :
    (Strategies[id].approved /\ ~Strategies[id].executed) =>
      LET s == Strategies[id] IN
        /\ vault.balances[s.user] < s.totalAmount =>
             LET r == executeStrategy(World, sender, id) IN
               r.err = "InsufficientBalance" /\ r.w = World
        /\ \A b \in 1..MaxAmount :
             LET r1 == withdraw(World, s.user, b)
                 r2 == executeStrategy(r1.w, sender, id)
             IN (r1.err = "" /\ r1.w.vault.balances[s.user] < s.totalAmount) =>
                  /\ r2.err = "InsufficientBalance"
                  /\ r2.w = r1.w
                  /\ getStrategy(r2.w, id) = s
                  /\ r2.w.usdc.balanceOf[vault.router] = usdc.balanceOf[vault.router]

C13_Witness ==
  /\ last.op = "executeStrategy"
  /\ last.err = "InsufficientBalance"
  /\ Len(events.StrategyProposed) = 1
  /\ Strategies[1].approved /\ ~Strategies[1].executed
  /\ vault.balances["alice"] < Strategies[1].totalAmount
  /\ usdc.balanceOf[Admin] = AdminWallet

(* C14: executeStrategy(id) by the Router-authorized identity or by the     *)
(* system owner fails StrategyNotFound for an unknown id and                *)
(* StrategyNotApproved for an unapproved strategy; it succeeds on an        *)
(* approved, unexecuted strategy covered by the owner's balance, and a      *)
(* successful call debits the owner's availableBalance by totalAmount,      *)
(* moves totalAmount of the asset from the Ledger to the Router-authorized  *)
(* address, sets executed and records id as the owner's active strategy.    *)
C14_ExecuteStrategyEffect ==
  \A id \in 0..(MaxStrategies + 1), sender \in RouterOrOwner :
    LET r == executeStrategy(World, sender, id)
        s == getStrategy(World, id)
    IN /\ id \notin DOMAIN Strategies => r.err = "StrategyNotFound"
       /\ (id \in DOMAIN Strategies /\ ~s.approved) => r.err = "StrategyNotApproved"
       /\ (id \in DOMAIN Strategies /\ s.approved /\ ~s.executed
             /\ vault.balances[s.user] >= s.totalAmount) => r.err = ""
       /\ r.err = "" =>
            /\ r.w.vault.balances =
                 [vault.balances EXCEPT ![s.user] = @ - s.totalAmount]
            /\ r.w.usdc.balanceOf =
                 [[usdc.balanceOf EXCEPT ![VaultAddr] = @ - s.totalAmount]
                    EXCEPT ![vault.router] = @ + s.totalAmount]
            /\ getStrategy(r.w, id) = [s EXCEPT !.executed = TRUE]
            /\ r.w.vault.positions[s.user].activeStrategyId = id

C14_Witness ==
  /\ last.op = "executeStrategy"
  /\ last.err = ""
  /\ vault.router = Keeper
  /\ Len(events.StrategyProposed) = 2
  /\ Strategies[2].executed /\ ~Strategies[1].executed
  /\ vault.positions["alice"].activeStrategyId = 2
  /\ usdc.balanceOf[Keeper] = Strategies[2].totalAmount

(* C15: proposeStrategy fails InsufficientBalance when the owner's          *)
(* availableBalance is below totalAmount; otherwise it stores the record    *)
(* with the given owner, allocations and totalAmount, not approved and not  *)
(* executed, and reserves nothing: no balance and no token holding          *)
(* changes, so a further proposal against the same balance succeeds too.    *)
C15_ProposeReservesNothing ==
  \A sender \in RouterOrOwner, user \in Users, t \in 0..(MaxAmount + 1) :
    \A plan \in {PlanFor(t)} \cup RouterPlans :
      LET r == proposeStrategy(World, sender, user, plan, t, blockTimestamp)
          r2 == proposeStrategy(r.w, sender, user, plan, t, blockTimestamp)
      IN IF vault.balances[user] < t
         THEN r.err = "InsufficientBalance" /\ r.w = World
         ELSE /\ r.err = ""
              /\ getStrategy(r.w, r.ret) =
                   [id |-> vault.nextStrategyId, user |-> user, allocations |-> plan,
                    totalAmount |-> t, createdAt |-> blockTimestamp,
                    executed |-> FALSE, approved |-> FALSE]
              /\ r.w.vault.balances = vault.balances
              /\ r.w.vault.positions = vault.positions
              /\ r.w.usdc = usdc
              /\ \A id \in DOMAIN Strategies : getStrategy(r.w, id) = Strategies[id]
              /\ r2.err = "" /\ r2.ret # r.ret

C15_Witness ==
  /\ last.op = "proposeStrategy"
  /\ last.err = ""
  /\ Len(events.StrategyProposed) = 2
  /\ ~Strategies[1].executed /\ ~Strategies[2].executed
  /\ Strategies[1].totalAmount + Strategies[2].totalAmount > vault.balances["alice"]
  /\ vault.balances["alice"] = ghost.netCredited["alice"]
  /\ usdc.balanceOf[VaultAddr] = vault.balances["alice"]

(* C16: proposeStrategy, executeStrategy and returnFunds fail OnlyRouter    *)
(* and change nothing when the caller is neither the Router-authorized      *)
(* identity nor the system owner; while no Router-authorized identity is    *)
(* set (router is the zero address, which sends no transaction) the system  *)
(* owner is the only caller they accept.                                    *)
C16_OnlyRouterOrOwner ==
  \A sender \in Addresses \ {ZeroAddr} :
    LET allowed == sender = vault.router \/ sender = vault.owner
        calls ==
          {proposeStrategy(World, sender, u, PlanFor(t), t, blockTimestamp) :
             u \in Users, t \in 0..MaxAmount}
          \cup {executeStrategy(World, sender, id) : id \in 0..(MaxStrategies + 1)}
          \cup {returnFunds(World, sender, u, a) : u \in Users, a \in 0..MaxAmount}
    IN /\ ~allowed => \A r \in calls : r.err = "OnlyRouter" /\ r.w = World
       /\ allowed => \A r \in calls : r.err # "OnlyRouter"
       /\ vault.router = ZeroAddr => (allowed <=> sender = Admin)

C16_Witness ==
  /\ last.op = "executeStrategy"
  /\ last.err = "OnlyRouter"
  /\ vault.router = ZeroAddr
  /\ \E id \in DOMAIN Strategies :
       /\ Strategies[id].approved /\ ~Strategies[id].executed
       /\ vault.balances[Strategies[id].user] >= Strategies[id].totalAmount

-----------------------------------------------------------------------------
(* Properties of the peg check *)

(* Readings no older than one hour at the current time *)
FreshAges == {a \in Ages : a <= OneHour /\ a <= blockTimestamp}

(* C26: with a fresh reading and decimals >= 2, validatePeg returns true    *)
(* if and only if 0.99 * 10^decimals < price < 1.01 * 10^decimals; both     *)
(* bounds are exclusive, and a zero or negative price gives false.          *)
C26_PegBandExclusive ==
  /\ \A d \in 2..MaxDecimals, a \in FreshAges :
       \A p \in Prices(d) :
         LET r == validateUsdcPeg(Reading(p, blockTimestamp - a, d), blockTimestamp) IN
           /\ r.err = ""
           /\ r.ret = (99 * Pow10(d) < 100 * p /\ 100 * p < 101 * Pow10(d))
           /\ 100 * p \in {99 * Pow10(d), 101 * Pow10(d)} => r.ret = FALSE
           /\ p <= 0 => r.ret = FALSE
  /\ last.op = "validateUsdcPeg" => peg = validateUsdcPeg(priceFeed, blockTimestamp)

C26_Witness ==
  /\ last.op = "validateUsdcPeg"
  /\ priceFeed.decimals >= 2
  /\ 100 * priceFeed.price = 101 * Pow10(priceFeed.decimals)
  /\ blockTimestamp - priceFeed.updatedAt <= OneHour
  /\ peg = [err |-> "", ret |-> FALSE]

(* C27: for every decimals value of the feed and a fresh reading,           *)
(* validatePeg returns true when price = 1.00 * 10^decimals.                *)
C27_PegTrueAtOneUnit ==
  \A d \in 0..MaxDecimals, a \in FreshAges :
    validateUsdcPeg(Reading(Pow10(d), blockTimestamp - a, d), blockTimestamp)
      = [err |-> "", ret |-> TRUE]

(* C28: for a reading with updatedAt <= now, validatePeg fails              *)
(* StalePriceFeed if and only if now - updatedAt > 1 hour; a reading        *)
(* exactly one hour old is accepted, and a stale reading gives no boolean   *)
(* result, whatever the price.                                              *)
C28_StaleIffOlderThanOneHour ==
  /\ \A reading \in Readings(blockTimestamp) :
       LET r == validateUsdcPeg(reading, blockTimestamp)
           age == blockTimestamp - reading.updatedAt
       IN /\ (r.err = "StalePriceFeed") = (age > OneHour)
          /\ age <= OneHour => r.err = "" /\ r.ret \in BOOLEAN
          /\ age > OneHour => r.err = "StalePriceFeed" /\ r.ret = "none"
          /\ getLatestPrice(reading, blockTimestamp).err = r.err
  /\ last.op \in {"validateUsdcPeg", "getLatestPrice"} =>
       (last.err = "StalePriceFeed") = (blockTimestamp - priceFeed.updatedAt > OneHour)

C28_Witness ==
  /\ last.op = "validateUsdcPeg"
  /\ blockTimestamp - priceFeed.updatedAt = OneHour
  /\ priceFeed.price = Pow10(priceFeed.decimals)
  /\ peg = [err |-> "", ret |-> TRUE]

-----------------------------------------------------------------------------
(* Properties of the Bridge *)

Processed(m) == bridge.processedMessages[m]

(* The inbound amounts recorded for message id m *)
Recorded(m) ==
  {k \in DOMAIN events.BridgeReceived : events.BridgeReceived[k].messageId = m}

(* C1: under any sequence of deliveries by the Transport, duplicates and    *)
(* any order included, each message id is accepted at most once: one        *)
(* inbound amount is recorded for a processed id and none for any other,    *)
(* no operation removes an id from the processed set, and a further         *)
(* receiveMessage with a processed id fails MessageAlreadyProcessed and     *)
(* records nothing.                                                         *)
C1_ReceiveExactlyOnce ==
  /\ [](\A m \in MessageIds :
          /\ Cardinality(Recorded(m)) = IF Processed(m) THEN 1 ELSE 0
          /\ Processed(m) =>
               \A ta \in InboundTokenAmounts :
                 LET r == ccipReceive(World, CcipRouterAddr, Message(m, ta)) IN
                   /\ r.err = "MessageAlreadyProcessed"
                   /\ r.w.events.BridgeReceived = events.BridgeReceived
                   /\ r.w.bridge.processedMessages = bridge.processedMessages)
  /\ [][\A m \in MessageIds : Processed(m) => Processed(m)']_vars

C1_Witness ==
  /\ last.op = "ccipReceive"
  /\ last.err = "MessageAlreadyProcessed"
  /\ \A m \in MessageIds : Processed(m)
  /\ events.BridgeReceived[1].messageId = MaxMessages

-----------------------------------------------------------------------------
(* Properties of the Router *)

(* C6: executeFullStrategy is all-or-nothing.  When the Ledger's            *)
(* executeStrategy, a deployToProtocol or a bridgeFunds step of the call    *)
(* fails, the call fails and leaves everything as it was before the call:   *)
(* the strategy's executed flag, the owner's availableBalance and           *)
(* activeStrategyId, the holdings of the Router, the adapters and the       *)
(* Bridge, and the per-owner-per-protocol tallies, the effects of the       *)
(* allocations dispatched earlier in the list included.                     *)
C6_ExecuteFullStrategyAllOrNothing ==
  \A id \in RouterStrategyIds, down \in SUBSET Pools :
    LET r == executeFullStrategy(World, router.owner, id, down) IN
      (\E k \in DOMAIN r.steps : r.steps[k].err # "") =>
        /\ r.err # ""
        /\ getStrategy(r.w, id) = getStrategy(World, id)
        /\ r.w.vault.balances = vault.balances
        /\ r.w.vault.positions = vault.positions
        /\ r.w.usdc.balanceOf = usdc.balanceOf
        /\ r.w.router.userDeposits = router.userDeposits
        /\ r.w = World

C6_Witness ==
  /\ last.op = "executeFullStrategy"
  /\ last.err \in {"InsufficientFunds", "ProtocolNotActive", "PoolReverted"}
  /\ last.step = 3
  /\ router.protocols["AAVE_V3"] = [pool |-> PoolA, active |-> TRUE]
  /\ 1 \in DOMAIN Strategies
  /\ Strategies[1].approved /\ ~Strategies[1].executed
  /\ Strategies[1].allocations[1].protocol = PoolA
  /\ vault.balances["alice"] >= Strategies[1].totalAmount

(* The amounts of the allocations that name the given adapter, summed *)
AmountTo(allocations, pool) ==
  SumOver([k \in DOMAIN allocations |-> allocations[k].amount],
          {k \in DOMAIN allocations : allocations[k].protocol = pool})

AmountTotal(allocations) ==
  SumOver([k \in DOMAIN allocations |-> allocations[k].amount], DOMAIN allocations)

(* The adapters of the protocols that are configured and active *)
ActivePools == {router.protocols[p].pool : p \in {q \in Protocols : router.protocols[q].active}}

(* C17: for an approved strategy whose allocations are all local, each      *)
(* naming the adapter of a configured active protocol, with amounts that    *)
(* sum to totalAmount <= the owner's availableBalance, executeFullStrategy  *)
(* succeeds once the Ledger authorizes the Router and no adapter rejects    *)
(* the supply; a successful call debits the owner's availableBalance by     *)
(* totalAmount, supplies each allocation's amount to its adapter in list    *)
(* order, adds those amounts to the owner's tally for each protocol and     *)
(* leaves the strategy executed.                                            *)
C17_ExecuteFullStrategyLocal ==
  \A id \in DOMAIN Strategies :
    LET s == Strategies[id]
        a == s.allocations
        r == executeFullStrategy(World, router.owner, id, {})
    IN ( /\ s.approved /\ ~s.executed
         /\ \A k \in DOMAIN a : a[k].chainSelector = 0 /\ a[k].protocol \in ActivePools
         /\ AmountTotal(a) = s.totalAmount
         /\ s.totalAmount <= vault.balances[s.user] )
       => /\ vault.router = RouterAddr => r.err = ""
          /\ r.err = "" =>
               /\ r.w.vault.balances =
                    [vault.balances EXCEPT ![s.user] = @ - s.totalAmount]
               /\ getStrategy(r.w, id) = [s EXCEPT !.executed = TRUE]
               /\ r.steps = <<[call |-> "executeStrategy", err |-> ""]>> \o
                             [k \in DOMAIN a |-> [call |-> "deployToProtocol", err |-> ""]]
               /\ \A pool \in Pools :
                    r.w.usdc.balanceOf[pool] = usdc.balanceOf[pool] + AmountTo(a, pool)
               /\ \A p \in Protocols :
                    r.w.router.userDeposits[s.user][p] =
                      router.userDeposits[s.user][p] + AmountTo(a, router.protocols[p].pool)
               /\ r.w.usdc.balanceOf[VaultAddr] = usdc.balanceOf[VaultAddr] - s.totalAmount
               /\ r.w.usdc.balanceOf[RouterAddr] = usdc.balanceOf[RouterAddr]

C17_Witness ==
  /\ last.op = "executeFullStrategy"
  /\ last.err = ""
  /\ 1 \in DOMAIN Strategies
  /\ Strategies[1].executed
  /\ Strategies[1].allocations = <<Allocation(0, PoolA, 1), Allocation(0, PoolB, 1)>>
  /\ Strategies[1].totalAmount = 2
  /\ vault.balances["alice"] = 0
  /\ usdc.balanceOf[PoolA] = 1 /\ usdc.balanceOf[PoolB] = 1
  /\ router.userDeposits["alice"] = [p \in Protocols |-> 1]

(* C18: after every successful executeFullStrategy(id) each allocation of   *)
(* the strategy has been dispatched, a local one through deployToProtocol   *)
(* and a cross-chain one through bridgeFunds; none is passed over without   *)
(* an error.                                                                *)
C18_EveryAllocationDispatched ==
  \A id \in RouterStrategyIds :
    LET r == executeFullStrategy(World, router.owner, id, {})
        a == getAllocations(World, id)
    IN r.err = "" =>
         \A k \in DOMAIN a :
           r.steps[k + 1].call =
             IF a[k].chainSelector = 0 THEN "deployToProtocol" ELSE "bridgeFunds"

(* C19: the Router holds funds only transiently.  After every successful    *)
(* executeFullStrategy the Router's holdings of the asset equal its         *)
(* holdings before the call, for every stored strategy, one whose           *)
(* allocation amounts do not sum to totalAmount included.                   *)
C19_RouterHoldsNothing ==
  /\ \A id \in RouterStrategyIds :
       LET r == executeFullStrategy(World, router.owner, id, {}) IN
         r.err = "" => r.w.usdc.balanceOf[RouterAddr] = usdc.balanceOf[RouterAddr]
  /\ \A t \in 1..MaxAmount, amount \in 1..MaxAmount :
       LET r1 == proposeStrategy(World, vault.owner, "alice", PlanFor(amount), t,
                                 blockTimestamp)
           r2 == approveStrategy(r1.w, "alice", r1.ret)
           r3 == executeFullStrategy(r2.w, router.owner, r1.ret, {})
       IN (r1.err = "" /\ r2.err = "" /\ r3.err = "") =>
            r3.w.usdc.balanceOf[RouterAddr] = usdc.balanceOf[RouterAddr]

(* C20: receiveMessage by any identity other than the trusted Transport    *)
(* fails OnlyRouter, for a processed message id too, and changes nothing,   *)
(* the processed set included; a delivery of the same id by the Transport   *)
(* after the refused attempt ends exactly as it would have without the     *)
(* attempt, and is accepted when the id is unprocessed and the message      *)
(* carries a token amount.                                                  *)
C20_ReceiveOnlyTransport ==
  \A sender \in Addresses \ {bridge.ccipRouter}, m \in MessageIds :
    \A ta \in InboundTokenAmounts :
      LET r == ccipReceive(World, sender, Message(m, ta))
          later == ccipReceive(r.w, bridge.ccipRouter, Message(m, ta))
      IN /\ r.err = "OnlyRouter"
         /\ r.w.bridge.processedMessages = bridge.processedMessages
         /\ r.w = World
         /\ later = ccipReceive(World, bridge.ccipRouter, Message(m, ta))
         /\ (~Processed(m) /\ ta # <<>>) =>
              later.err = "" /\ later.w.bridge.processedMessages[m]

C20_Witness ==
  /\ last.op = "ccipReceive"
  /\ last.err = "OnlyRouter"
  /\ Processed(1) /\ ~Processed(MaxMessages)

(* The Transport's delivery of message id m carrying token amounts ta *)
Deliver(w, m, ta) == ccipReceive(w, w.bridge.ccipRouter, Message(m, ta))

(* C21: every receiveMessage from the trusted Transport with a message id   *)
(* not yet processed succeeds, adds the id to the processed set and         *)
(* records the inbound amount, for every well-formed message, one whose     *)
(* tokenAmounts list is empty included.                                     *)
C21_ReceiveUnprocessedSucceeds ==
  \A m \in MessageIds, ta \in InboundTokenAmounts :
    ~Processed(m) =>
      LET r == Deliver(World, m, ta) IN
        /\ r.err = ""
        /\ r.w.bridge.processedMessages[m]
        /\ Len(r.w.events.BridgeReceived) = Len(events.BridgeReceived) + 1

BridgeCallers == Users \cup {Admin, RouterAddr}

Fees == 0..(InitialLink + 1)

(* C23: bridgeTokens to a chain that is not allowed, never configured or    *)
(* disabled, fails ChainNotAllowed; nothing is pulled from the caller and   *)
(* nothing is submitted to the Transport.                                   *)
C23_BridgeTokensChainNotAllowed ==
  \A sender \in BridgeCallers, c \in ChainSelectors, amount \in Amounts :
    \A fee \in Fees, m \in MessageIds :
      ~bridge.allowedChains[c] =>
        LET r == bridgeTokens(World, sender, c, amount, fee, m) IN
          /\ r.err = "ChainNotAllowed"
          /\ r.steps = <<>>
          /\ r.w.usdc = usdc /\ r.w.link = link
          /\ r.w = World

C23_Witness ==
  /\ last.op = "bridgeTokens"
  /\ last.err = "ChainNotAllowed"
  /\ \A c \in ChainSelectors : ~bridge.allowedChains[c]
  /\ bridge.destinationReceivers[1] = RemoteReceiver
  /\ bridge.destinationReceivers[MaxChains] = ZeroAddr
  /\ usdc.balanceOf["alice"] = InitialWallet

(* C24: bridgeTokens to an allowed chain fails InvalidReceiver when no      *)
(* receiver is stored, and fails InsufficientLinkFees when the caller can   *)
(* pay the amount and the Bridge's fee-token balance is below the quoted    *)
(* fee; after either failure every balance of the asset and of the fee      *)
(* token is as before the call, the pull of the amount undone, and nothing  *)
(* was submitted to the Transport.                                          *)
C24_BridgeTokensFailureRestores ==
  \A sender \in BridgeCallers, c \in ChainSelectors, amount \in Amounts :
    \A fee \in Fees, m \in MessageIds :
      bridge.allowedChains[c] =>
        LET r == bridgeTokens(World, sender, c, amount, fee, m)
            pull == erc20_transferFrom(usdc, BridgeAddr, sender, BridgeAddr, amount)
        IN /\ bridge.destinationReceivers[c] = ZeroAddr => r.err = "InvalidReceiver"
           /\ ( /\ bridge.destinationReceivers[c] # ZeroAddr
                /\ pull.err = ""
                /\ link.balanceOf[BridgeAddr] < fee ) => r.err = "InsufficientLinkFees"
           /\ r.err \in {"InvalidReceiver", "InsufficientLinkFees"} =>
                /\ r.w.usdc = usdc /\ r.w.link = link
                /\ r.steps = <<>>
                /\ r.w = World

C24_Witness ==
  /\ last.op = "bridgeTokens"
  /\ last.err = "InsufficientLinkFees"
  /\ usdc.balanceOf["alice"] = InitialWallet
  /\ usdc.balanceOf[BridgeAddr] = 0
  /\ link.balanceOf[BridgeAddr] = InitialLink

(* C25: configureChain sets allowed and stores the receiver; disableChain   *)
(* clears allowed and keeps the stored receiver; bridgeTokens to a          *)
(* disabled chain fails ChainNotAllowed, the chain becomes allowed again    *)
(* only by a configureChain, and neither call touches the route of another  *)
(* chain id.                                                                *)
C25_ChainRoutes ==
  /\ [](\A c \in ChainSelectors, receiver \in {RemoteReceiver, ZeroAddr} :
          LET r == configureChain(World, bridge.owner, c, receiver)
              d == disableChain(World, bridge.owner, c)
              again == configureChain(d.w, bridge.owner, c, RemoteReceiver)
          IN /\ r.err = "" /\ d.err = ""
             /\ r.w = [World EXCEPT !.bridge.destinationReceivers[c] = receiver,
                                     !.bridge.allowedChains[c] = TRUE]
             /\ d.w = [World EXCEPT !.bridge.allowedChains[c] = FALSE]
             /\ d.w.bridge.destinationReceivers[c] = bridge.destinationReceivers[c]
             /\ \A amount \in 1..MaxAmount, fee \in Fees, m \in MessageIds :
                  /\ bridgeTokens(d.w, "alice", c, amount, fee, m).err = "ChainNotAllowed"
                  /\ bridgeTokens(again.w, "alice", c, amount, fee, m).err # "ChainNotAllowed")
  /\ [][\A c \in ChainSelectors :
          /\ (~bridge.allowedChains[c] /\ bridge.allowedChains'[c]) =>
               last'.op = "configureChain" /\ last'.err = ""
          /\ bridge.destinationReceivers'[c] # bridge.destinationReceivers[c] =>
               last'.op = "configureChain" /\ last'.err = ""]_vars

C25_Witness ==
  /\ last.op = "bridgeTokens"
  /\ last.err = "ChainNotAllowed"
  /\ ~bridge.allowedChains[1] /\ bridge.destinationReceivers[1] = RemoteReceiver
  /\ bridge.allowedChains[MaxChains] /\ bridge.destinationReceivers[MaxChains] = RemoteReceiver
  /\ usdc.balanceOf[CcipRouterAddr] > 0

-----------------------------------------------------------------------------
(* Properties of the Router's single-protocol calls *)

(* The callers the Router accepts: the Ledger and the admin *)
VaultOrOwner == {sender \in Addresses : onlyVaultOrOwner(World, sender)}

(* C29: deployToProtocol by an accepted caller fails ProtocolNotActive      *)
(* when the protocol is not active and InsufficientFunds when the Router    *)
(* holds less than amount; on success the adapter is supplied exactly       *)
(* amount and the tally of (user, protocol) grows by exactly amount, every  *)
(* other tally unchanged.                                                   *)
C29_DeployToProtocol ==
  \A sender \in VaultOrOwner, user \in Users, protocol \in Protocols,
     amount \in 0..MaxAmount, down \in SUBSET Pools :
    LET r == deployToProtocol(World, sender, user, protocol, amount, down)
        config == World.router.protocols[protocol]
    IN /\ ~config.active => r.err = "ProtocolNotActive"
       /\ config.active /\ World.usdc.balanceOf[RouterAddr] < amount
            => r.err = "InsufficientFunds"
       /\ r.err # "" => r.w = World
       /\ r.err = "" =>
            /\ r.w.usdc.balanceOf[config.pool] = World.usdc.balanceOf[config.pool] + amount
            /\ r.w.usdc.balanceOf[RouterAddr] = World.usdc.balanceOf[RouterAddr] - amount
            /\ r.w.router.userDeposits =
                 [World.router.userDeposits EXCEPT ![user][protocol] = @ + amount]

C29_Witness ==
  /\ last.op = "deployToProtocol"
  /\ last.err = ""
  /\ \E protocol \in Protocols :
       /\ router.userDeposits["alice"][protocol] > 0
       /\ usdc.balanceOf[router.protocols[protocol].pool] > 0

(* C30: withdrawFromProtocol by an accepted caller fails ProtocolNotActive  *)
(* when the protocol is disabled, even if the tally covers amount, and      *)
(* InsufficientFunds when the tally of (user, protocol) is below amount; on *)
(* success the tally falls by exactly amount, never below zero, the user's  *)
(* balance in the Ledger grows by exactly amount, and no other tally        *)
(* changes.                                                                 *)
C30_WithdrawFromProtocol ==
  \A sender \in VaultOrOwner, user \in Users, protocol \in Protocols,
     amount \in 0..MaxAmount, down \in SUBSET Pools :
    LET r == withdrawFromProtocol(World, sender, user, protocol, amount, down)
        config == World.router.protocols[protocol]
        tally == World.router.userDeposits[user][protocol]
    IN /\ ~config.active => r.err = "ProtocolNotActive"
       /\ config.active /\ tally < amount => r.err = "InsufficientFunds"
       /\ r.err # "" => r.w = World
       /\ r.err = "" =>
            /\ r.w.router.userDeposits[user][protocol] = tally - amount
            /\ r.w.router.userDeposits[user][protocol] >= 0
            /\ r.w.router.userDeposits =
                 [World.router.userDeposits EXCEPT ![user][protocol] = @ - amount]
            /\ r.w.vault.balances = [World.vault.balances EXCEPT ![user] = @ + amount]

C30_Witness ==
  /\ last.op = "withdrawFromProtocol"
  /\ last.err = ""
  /\ vault.balances["alice"] > 0
  /\ ghost.netCredited["alice"] > 0

(* C31: bridgeFunds by an accepted caller fails InsufficientFunds and      *)
(* moves nothing when the Router holds less than amount; otherwise the      *)
(* Router's holdings fall by exactly amount, the holdings of the address    *)
(* stored as the Bridge rise by exactly amount, and no tally changes.       *)
C31_BridgeFunds ==
  \A sender \in VaultOrOwner, user \in Users, destChainSelector \in 0..(MaxChains + 1),
     amount \in 0..(MaxAmount + 1) :
    LET r == bridgeFunds(World, sender, user, destChainSelector, amount)
        held == World.usdc.balanceOf[RouterAddr]
    IN IF held < amount
       THEN r.err = "InsufficientFunds" /\ r.w = World
       ELSE /\ r.err = ""
            /\ r.w.usdc.balanceOf[RouterAddr] = held - amount
            /\ r.w.usdc.balanceOf[World.router.bridge] =
                 World.usdc.balanceOf[World.router.bridge] + amount
            /\ r.w.router = World.router

C31_Witness ==
  /\ last.op = "bridgeFunds"
  /\ last.err = ""
  /\ router.bridge = BridgeAddr
  /\ usdc.balanceOf[BridgeAddr] > 0

-----------------------------------------------------------------------------
(* Properties of the administrative entries *)

(* The owner of each component *)
Owners(w) == [vault |-> w.vault.owner, router |-> w.router.owner, bridge |-> w.bridge.owner]

(* What each administrative entry gives when sender calls it *)
LedgerAdmin(w, sender) ==
  {setRouter(w, sender, a) : a \in {ZeroAddr, RouterAddr}}
    \cup {setBridge(w, sender, a) : a \in {ZeroAddr, BridgeAddr}}

RouterAdmin(w, sender) ==
  {router_setBridge(w, sender, a) : a \in {ZeroAddr, BridgeAddr}}
    \cup {configureProtocol(w, sender, protocol, pool) : protocol \in Protocols, pool \in Pools}
    \cup {disableProtocol(w, sender, protocol) : protocol \in Protocols}
    \cup {[err |-> r.err, w |-> r.w, ret |-> r.ret] :
            r \in {executeFullStrategy(w, sender, id, {}) : id \in RouterStrategyIds}}

BridgeAdmin(w, sender) ==
  {configureChain(w, sender, c, receiver) :
     c \in ChainSelectors, receiver \in {ZeroAddr, RemoteReceiver}}
    \cup {disableChain(w, sender, c) : c \in ChainSelectors}
    \cup {withdrawLink(w, sender), withdrawUsdc(w, sender)}

(* C32: every administrative entry of the Ledger, the Router and the       *)
(* Bridge fails OnlyOwner and changes nothing when its caller is not that   *)
(* component's owner, and no operation changes the owner of a component.    *)
C32_OnlyOwner ==
  /\ [](\A sender \in Addresses :
         /\ sender # vault.owner =>
              \A r \in LedgerAdmin(World, sender) : r.err = "OnlyOwner" /\ r.w = World
         /\ sender # router.owner =>
              \A r \in RouterAdmin(World, sender) : r.err = "OnlyOwner" /\ r.w = World
         /\ sender # bridge.owner =>
              \A r \in BridgeAdmin(World, sender) : r.err = "OnlyOwner" /\ r.w = World
         /\ \A r \in LedgerAdmin(World, sender) \cup RouterAdmin(World, sender)
                        \cup BridgeAdmin(World, sender) :
              Owners(r.w) = Owners(World))
  /\ [][Owners(World)' = Owners(World)]_vars

C32_Witness ==
  /\ last.op = "configureProtocol"
  /\ last.err = "OnlyOwner"
  /\ \E protocol \in Protocols : router.protocols[protocol].active
  /\ usdc.balanceOf[RouterAddr] > 0

(* C33: disableProtocol by the owner changes only that protocol's active   *)
(* flag, to false: the stored adapter address, the spend authorization      *)
(* granted to the adapter, every tally and the other protocol's             *)
(* configuration are unchanged.                                             *)
C33_DisableProtocolFrame ==
  \A protocol \in Protocols :
    LET r == disableProtocol(World, router.owner, protocol)
        pool == router.protocols[protocol].pool
    IN /\ r.err = ""
       /\ r.w.router.protocols[protocol] = [pool |-> pool, active |-> FALSE]
       /\ \A other \in Protocols \ {protocol} :
            r.w.router.protocols[other] = router.protocols[other]
       /\ r.w.usdc.allowance[<<RouterAddr, pool>>] = usdc.allowance[<<RouterAddr, pool>>]
       /\ r.w.router.userDeposits = router.userDeposits
       /\ r.w = [World EXCEPT !.router.protocols[protocol].active = FALSE]

C33_Witness ==
  /\ last.op = "disableProtocol"
  /\ last.err = ""
  /\ \E protocol \in Protocols :
       LET config == router.protocols[protocol] IN
         /\ ~config.active
         /\ config.pool \in Pools
         /\ usdc.allowance[<<RouterAddr, config.pool>>] = MaxUint256
         /\ router.userDeposits["alice"][protocol] > 0

-----------------------------------------------------------------------------
(* Properties of the periodic rebalance check *)

(* The drift, in basis points, between a fresh recommendation and the one   *)
(* stored for the wallet                                                    *)
DriftBps(walletAddress, answer) ==
  apyToBps(Abs(answer.blendedApyPct - bpsToPct(registry[walletAddress].blendedApyBps)))

(* The answers with which an evaluation reaches the comparison *)
Analysed == {answer \in Answers : answer.read /\ answer.yields = "pools" /\ answer.ai}

(* C34: the rebalance check proposes a rebalance (shouldRebalance true, a   *)
(* new recommendation written to the registry, newRecommendationId not      *)
(* null) only when the drift in basis points exceeds                        *)
(* rebalanceDriftThresholdBps; a drift equal to the threshold triggers no   *)
(* rebalance and no write.                                                  *)
C34_RebalanceOnlyAboveThreshold ==
  \A walletAddress \in Users, answer \in Analysed :
    LET r == evaluateRebalance(registry, walletAddress, answer)
        driftBps == DriftBps(walletAddress, answer)
    IN /\ r.err = "" /\ r.check.shouldRebalance => driftBps > rebalanceDriftThresholdBps
       /\ r.check.newRecommendationId # Null => driftBps > rebalanceDriftThresholdBps
       /\ r.registry # registry => driftBps > rebalanceDriftThresholdBps
       /\ driftBps = rebalanceDriftThresholdBps =>
            r.err = "" /\ ~r.check.shouldRebalance /\ r.registry = registry

(* The positions of the list whose evaluation did not fail *)
Evaluated(steps) == {k \in DOMAIN steps : steps[k].err = ""}

(* C39: in the cron-triggered check a failure while one wallet is evaluated *)
(* is caught for that wallet: every wallet of the list is still evaluated,  *)
(* in list order, the failed wallets are left out of the details, and the   *)
(* handler returns a summary.                                               *)
C39_FailurePerWallet ==
  /\ \A activeWallets \in WalletLists :
       \A answers \in {a \in AnswerLists : Len(a) = Len(activeWallets)} :
         LET r == onCronTrigger(registry, activeWallets, answers)
             details == r.summary.details
             ok == Evaluated(r.steps)
         IN /\ r.err = ""
            /\ Len(r.steps) = Len(activeWallets)
            /\ \A k \in DOMAIN r.steps :
                 /\ r.steps[k].call = activeWallets[k]
                 /\ \/ ~answers[k].read
                    \/ answers[k].yields = "throws"
                    \/ answers[k].yields = "pools" /\ ~answers[k].ai
                    => r.steps[k].err # ""
                 /\ r.steps[k].err # "" =>
                      \/ ~answers[k].read
                      \/ answers[k].yields = "throws"
                      \/ answers[k].yields = "pools" /\ ~answers[k].ai
                      \/ answers[k].yields = "pools" /\ ~answers[k].write
            /\ r.summary.totalWallets = Cardinality(ok)
            /\ Len(details) = Cardinality(ok)
            /\ \A j \in DOMAIN details :
                 LET k == CHOOSE k \in ok : Cardinality({i \in ok : i <= k}) = j
                 IN details[j].walletAddress = activeWallets[k]
  /\ last.op = "onCronTrigger" /\ cron.err = "" =>
       /\ cron.summary.totalWallets = Len(cron.summary.details)
       /\ cron.summary.totalWallets <= Len(cron.activeWallets)

C39_Witness ==
  /\ last.op = "onCronTrigger"
  /\ last.step = 1
  /\ cron.err = ""
  /\ Len(cron.activeWallets) = 2
  /\ cron.summary.totalWallets = 1
  /\ cron.summary.details[1].walletAddress = cron.activeWallets[2]

-----------------------------------------------------------------------------
(* Properties of the holdings *)

(* The Ledger holds exactly what it owes its users *)
LedgerBacked(w) == w.usdc.balanceOf[VaultAddr] = SumOver(w.vault.balances, Addresses)

(* C35: in every state reached by deposit, withdraw, executeStrategy and    *)
(* returnFunds calls, the router being an address other than the Ledger,    *)
(* the Ledger's holdings of the asset equal the sum of all users'           *)
(* balances.                                                                *)
C35_LedgerHoldingsEqualBalances ==
  /\ vault.router # VaultAddr
  /\ LedgerBacked(World)
  /\ \A sender \in Addresses \ {VaultAddr}, amount \in 0..(MaxAmount + 1) :
       /\ LedgerBacked(deposit(World, sender, amount).w)
       /\ LedgerBacked(withdraw(World, sender, amount).w)
       /\ \A user \in Users : LedgerBacked(returnFunds(World, sender, user, amount).w)
  /\ \A sender \in Addresses \ {VaultAddr}, id \in StrategyIds :
       LedgerBacked(executeStrategy(World, sender, id).w)

C35_Witness ==
  /\ last.op = "returnFunds"
  /\ last.err = ""
  /\ \E id \in DOMAIN Strategies : Strategies[id].executed
  /\ usdc.balanceOf[VaultAddr] > 0
  /\ vault.balances["bob"] > 0

(* The holders of the asset, by role: the wallets, the Ledger, the Router   *)
(* and the address the Ledger sends to as its router, the adapters, the     *)
(* Bridge and the address the Router sends to as its bridge, and the        *)
(* Bridge's owner.  The Transport is not among them.                        *)
Holders(w) ==
  Users \cup {Admin, Keeper, VaultAddr, RouterAddr, BridgeAddr}
        \cup {w.vault.router, w.router.bridge, w.bridge.owner}
        \cup Pools \cup {w.router.protocols[protocol].pool : protocol \in Protocols}

Held(w, holders) == SumOver(w.usdc.balanceOf, holders)

(* The callers of the three components: a user and the owner *)
Callers == {"alice", Admin}

(* A call's result keeps the holders' total, and a failed call moves        *)
(* nothing at all.                                                          *)
Conserves(r) ==
  /\ Held(r.w, Holders(World)) = Held(World, Holders(World))
  /\ r.err # "" => r.w.usdc = usdc

-----------------------------------------------------------------------------
(* Properties of a failed execution *)

(* The approved strategies whose user's balance is below totalAmount *)
Unfunded ==
  {id \in DOMAIN Strategies :
     /\ Strategies[id].approved /\ ~Strategies[id].executed
     /\ vault.balances[Strategies[id].user] < Strategies[id].totalAmount}

(* executeStrategy(id) by sender on w succeeds and marks the strategy *)
Executes(w, sender, id) ==
  LET r == executeStrategy(w, sender, id) IN
    r.err = "" /\ r.w.vault.strategies[id].executed

(* C37: a failed execution is not terminal.  executeStrategy on an approved *)
(* strategy whose user's balance is below totalAmount fails                 *)
(* InsufficientBalance and leaves the strategy approved; once a deposit or  *)
(* a returnFunds brings the balance to totalAmount or more, executeStrategy *)
(* on the same id succeeds, with no new proposal or approval.               *)
C37_FailedExecutionRetries ==
  \A id \in Unfunded, sender \in RouterOrOwner :
    LET s == Strategies[id]
        failed == executeStrategy(World, sender, id)
    IN /\ failed.err = "InsufficientBalance"
       /\ failed.w = World
       /\ \A amount \in 1..MaxAmount :
            LET d == deposit(failed.w, s.user, amount) IN
              d.err = "" /\ d.w.vault.balances[s.user] >= s.totalAmount
                => Executes(d.w, sender, id)
       /\ \A amount \in 1..MaxAmount, funder \in RouterOrOwner :
            LET f == returnFunds(failed.w, funder, s.user, amount) IN
              f.err = "" /\ f.w.vault.balances[s.user] >= s.totalAmount
                => Executes(f.w, sender, id)

C37_Witness ==
  /\ last.op = "executeStrategy"
  /\ last.err = "InsufficientBalance"
  /\ \E id \in Unfunded :
       LET s == Strategies[id] IN
         /\ \E amount \in 1..MaxAmount :
              LET d == deposit(World, s.user, amount) IN
                d.err = "" /\ Executes(d.w, Admin, id)
         /\ \E amount \in 1..MaxAmount :
              LET f == returnFunds(World, Admin, s.user, amount) IN
                f.err = "" /\ Executes(f.w, Admin, id)

-----------------------------------------------------------------------------
(* Properties of the funds handed to the Bridge *)

(* The Bridge's chain configurations the owner can set for one chain *)
Configured(w, c) ==
  {configureChain(w, w.bridge.owner, c, receiver).w : receiver \in {ZeroAddr, RemoteReceiver}}
    \cup {disableChain(w, w.bridge.owner, c).w}

(* C38: bridgeFunds consults no route configuration of the Bridge and       *)
(* never invokes the Transport.  With enough in the Router it succeeds for  *)
(* every destination chain, allowed by the Bridge or not, makes no nested   *)
(* call and pays no fee, and gives no message id; the amount stays with     *)
(* the Bridge until the Bridge's owner sweeps it, because bridgeTokens      *)
(* sends only what it pulls from its own caller.                            *)
C38_BridgeFundsBypassesBridge ==
  \A sender \in VaultOrOwner, c \in ChainSelectors,
     amount \in 0..usdc.balanceOf[RouterAddr] :
    LET r == bridgeFunds(World, sender, "alice", c, amount) IN
      /\ r.err = "" /\ r.ret = 0 /\ r.steps = <<>>
      /\ r.w.bridge = bridge /\ r.w.link = link /\ r.w.events = events
      /\ r.w.usdc.balanceOf[bridge.ccipRouter] = usdc.balanceOf[bridge.ccipRouter]
      /\ \A w \in Configured(World, c) :
           LET q == bridgeFunds(w, sender, "alice", c, amount) IN
             q.err = "" /\ q.w.usdc = r.w.usdc /\ q.w.bridge = w.bridge
      /\ router.bridge = BridgeAddr =>
           LET open == configureChain(r.w, bridge.owner, c, RemoteReceiver).w
               held == open.usdc.balanceOf[BridgeAddr]
               sweep == withdrawUsdc(r.w, bridge.owner)
           IN /\ \A caller \in Users, sent \in 1..MaxAmount, m \in MessageIds :
                   LET b == bridgeTokens(open, caller, c, sent, 0, m) IN
                     /\ b.w.usdc.balanceOf[BridgeAddr] = held
                     /\ b.err = "" =>
                          b.w.usdc.balanceOf[caller] = open.usdc.balanceOf[caller] - sent
              /\ sweep.err = ""
              /\ sweep.w.usdc.balanceOf[BridgeAddr] = 0
              /\ sweep.w.usdc.balanceOf[bridge.owner] = usdc.balanceOf[bridge.owner] + held

C38_Witness ==
  /\ last.op = "bridgeFunds"
  /\ last.err = ""
  /\ router.bridge = BridgeAddr
  /\ usdc.balanceOf[BridgeAddr] > 0
  /\ \A c \in ChainSelectors : ~bridge.allowedChains[c]
  /\ \E caller \in Users, m \in MessageIds :
       bridgeTokens(configureChain(World, bridge.owner, 1, RemoteReceiver).w,
                    caller, 1, 1, 0, m).err = ""

====
